---- MODULE Spec2Model ----
(***************************************************************************)
(* Model of glustercli/cli.py: the facade functions that build a gluster   *)
(* command line, run it through utils.execCmd, classify the reply (busy,   *)
(* XML envelope, opRet/opErrno) and map the response tree.                 *)
(*                                                                         *)
(* Text is a sequence of fragments (a fragment is a run of characters);    *)
(* str.lower() works fragment by fragment and the substring test looks for *)
(* a run of consecutive fragments.  A captured stdout is a record: `wf`    *)
(* says whether etree.fromstring accepts it, `plain` is its text when it   *)
(* is not XML, and opRet/opErrno/opErrstr/body describe the parsed tree.   *)
(* A body is either one of the shapes of BodyShapes or "tree", and then    *)
(* `elements` holds the elements the mapper's top-level findall() returns, *)
(* each a record of its children's texts.  In a status or type token a     *)
(* space, a hyphen or an underscore is a fragment of its own.              *)
(***************************************************************************)
EXTENDS Integers, Sequences, FiniteSets, TLC

VARIABLES
    _peer,       \* module global _peer (cli.py:37)
    _peerUUID,   \* module global _peerUUID (cli.py:36)
    pc,          \* "idle": no facade call in progress; "returned": a call has returned or raised
    call,        \* the facade function last called and its arguments
    execResult,  \* what _execGluster/_execGlusterXml raised in that call (NoExc: nothing)
    execLog,     \* the argument vectors handed to utils.execCmd by that call, in order
    stages,      \* the classification stages that call went through, in order
    result,      \* what the call returned or raised
    substitutions, \* the values volume status has put in place of a path "localhost" so far
    tpc,         \* concurrent callers: where each thread is in _getLocalPeer/_getLocalPeerUUID
    tlocal,      \* concurrent callers: each thread's local variable (ip, o) and calls made
    computed,    \* how often the local address was resolved and "uuid get" was run
    returned     \* the values _getLocalPeer and _getLocalPeerUUID have returned so far

\* the state of one caller at a time
callVars == <<pc, call, execResult, execLog, stages, result, substitutions>>
\* the state of the concurrent callers
threadVars == <<tpc, tlocal, computed, returned>>

vars == <<_peer, _peerUUID, callVars, threadVars>>

----------------------------------------------------------------------------
(* Bounds of the inputs *)

\* stripeCount and replicaCount range over 0..MaxCount
MaxCount == 1
\* a brickList holds 1..MaxBricks bricks
MaxBricks == 2
\* a volume-status response holds 0..MaxNodes nodes, a peer-status response
\* 0..MaxNodes peers
MaxNodes == 2
\* each concurrent thread makes at most MaxCalls identity lookups
MaxCalls == 2

----------------------------------------------------------------------------
(* Text *)

_TRANS_IN_PROGRESS == <<"another transaction ", "is in progress">>

\* str.lower() on one fragment
lowerFragment(w) ==
    CASE w = "Another Transaction " -> "another transaction "
      [] w = "ANOTHER TRANSACTION " -> "another transaction "
      [] w = "Is In Progress" -> "is in progress"
      [] w = "IS IN PROGRESS" -> "is in progress"
      [] w = "Failed" -> "failed"
      [] w = "UUID: " -> "uuid: "
      [] OTHER -> w

\* str.lower()
lower(s) == [i \in 1..Len(s) |-> lowerFragment(s[i])]

\* needle in s
contains(needle, s) ==
    \E i \in 1..(Len(s) - Len(needle) + 1) :
        SubSeq(s, i, i + Len(needle) - 1) = needle

\* "%s" % n
str(n) ==
    CASE n = 0 -> "0" [] n = 1 -> "1" [] n = 2 -> "2" [] n = 3 -> "3"
      [] OTHER -> "n"

\* str.upper() on one fragment
upperFragment(w) ==
    CASE w = "Number of files migrated" -> "NUMBER OF FILES MIGRATED"
      [] w = "Migration complete" -> "MIGRATION COMPLETE"
      [] w = "paused" -> "PAUSED"
      [] w = "unknown" -> "UNKNOWN"
      [] w = "status " -> "STATUS "
      [] w = "Failed" -> "FAILED"
      [] w = "Distribute" -> "DISTRIBUTE"
      [] w = "Distributed" -> "DISTRIBUTED"
      [] w = "Replicate" -> "REPLICATE"
      [] w = "Started" -> "STARTED"
      [] w = "in" -> "IN"
      [] w = "progress" -> "PROGRESS"
      [] w = "completed" -> "COMPLETED"
      [] w = "Not" -> "NOT"
      [] w = "not" -> "NOT"
      [] w = "started" -> "STARTED"
      [] w = "Rebalance" -> "REBALANCE"
      [] w = "Replace" -> "REPLACE"
      [] w = "Remove" -> "REMOVE"
      [] w = "brick" -> "BRICK"
      [] w = "Stopped" -> "STOPPED"
      [] w = "p" -> "P"
      [] w = "a" -> "A"
      [] w = "s" -> "S"
      [] w = "v" -> "V"
      [] w = "m" -> "M"
      [] OTHER -> w

\* str.upper()
upper(s) == [i \in 1..Len(s) |-> upperFragment(s[i])]

\* s.startswith(prefix)
startswith(s, prefix) ==
    Len(s) >= Len(prefix) /\ SubSeq(s, 1, Len(prefix)) = prefix

\* s.endswith(suffix)
endswith(s, suffix) ==
    Len(s) >= Len(suffix) /\ SubSeq(s, Len(s) - Len(suffix) + 1, Len(s)) = suffix

\* the brick host<i>:/b
brickName(i) == "host" \o str(i) \o ":/b"

RECURSIVE join(_, _)
\* sep.join(list)
join(sep, list) ==
    IF list = <<>> THEN ""
    ELSE IF Len(list) = 1 THEN list[1]
    ELSE list[1] \o sep \o join(sep, Tail(list))

----------------------------------------------------------------------------
(* Captured output *)

ABSENT == "<absent>"     \* tree.find(tag) is None
NONE == "<None>"         \* the element is there and its .text is None

NoElement == [present |-> FALSE, text |-> <<>>]
Element(text) == [present |-> TRUE, text |-> text]

\* stdout that etree.fromstring rejects
PlainOut(text) ==
    [wf |-> FALSE, plain |-> text, opRet |-> ABSENT, opErrno |-> ABSENT,
     opErrstr |-> NoElement, body |-> "none", elements |-> <<>>]

\* stdout that is a <cliOutput> document
XmlOut(ret, errno, errstr, body) ==
    [wf |-> TRUE, plain |-> <<>>, opRet |-> ret, opErrno |-> errno,
     opErrstr |-> errstr, body |-> body, elements |-> <<>>]

\* a <cliOutput> document with opRet 0, opErrno 0, an empty opErrstr and the
\* given elements below
XmlTree(elements) ==
    [XmlOut("0", "0", Element(<<>>), "tree") EXCEPT !.elements = elements]

\* the character data of a captured stdout, in document order
chars(out) == IF out.wf THEN out.opErrstr.text ELSE out.plain

EmptyOut == PlainOut(<<>>)

\* the shapes of the part of the tree below the envelope fields:
\*   "full"    every node and field the mapper reads is there
\*   "local"   as "full", and an entry names its host "localhost"
\*   "noNode"  an element the mapper reaches through find(path).text is not there
\*   "noChild" a per-entry child the mapper reads is not there
BodyShapes == {"full", "local", "noNode", "noChild"}

BusyTexts ==
    { <<"Another Transaction ", "Is In Progress">>,
      <<"volume start: ", "ANOTHER TRANSACTION ", "IS IN PROGRESS">> }

Outs ==
    { XmlOut("0", "0", Element(<<>>), b) : b \in BodyShapes }
    \cup { XmlOut(r, e, Element(<<"volume does not exist">>), "none") :
             r \in {"-1", "2"}, e \in {"0", "2", "3"} }
    \cup { XmlOut("0", "3", Element(<<>>), "full") }
    \cup { XmlOut(r, "0", Element(t), "full") : r \in {"0", "-1"}, t \in BusyTexts }
    \cup { XmlOut("0", "0", Element(<<"another transaction ">>), "full") }
    \cup { XmlOut(r, "0", Element(<<>>), "full") : r \in {ABSENT, NONE, "abc"} }
    \cup { XmlOut("-1", e, Element(<<>>), "full") : e \in {ABSENT, NONE, "abc"} }
    \cup { XmlOut("0", "0", NoElement, "full") }
    \cup { PlainOut(t) : t \in {<<>>, <<"Failed">>, <<"another transaction ">>} }
    \cup { PlainOut(t) : t \in BusyTexts }

Errs == { <<>>, <<"Failed">>, <<"is in progress">> }

\* what utils.execCmd can return: (rc, out, err)
Replies == [rc : {0, 1}, out : Outs, err : Errs]

----------------------------------------------------------------------------
(* Exceptions and return values *)

NoXml == [form |-> "none", doc |-> EmptyOut]

\* a facade call's outcome: kind is "return" or the class of the exception raised;
\* carries names the constructor arguments the exception was given
Outcome(kind, stage, value, carries, cmd, rc, out, err, xml) ==
    [kind |-> kind, stage |-> stage, value |-> value, carries |-> carries,
     cmd |-> cmd, rc |-> rc, out |-> out, err |-> err, xml |-> xml]

NoExc == Outcome("none", "", "", {}, <<>>, 0, EmptyOut, <<>>, NoXml)

Return(value) == Outcome("return", "", value, {}, <<>>, 0, EmptyOut, <<>>, NoXml)

\* an exception of a class that is given no command and no output
\* (ParseError, TypeError, KeyError, IndexError, NameError)
Bare(kind, stage) == Outcome(kind, stage, "", {}, <<>>, 0, EmptyOut, <<>>, NoXml)

GlusterXMLError(stage, cmd, xml) ==
    Outcome("GlusterXMLError", stage, "", {"cmd", "xml"}, cmd, 0, EmptyOut, <<>>, xml)

GlusterCmdFailed(stage, cmd, rc, msg) ==
    Outcome("GlusterCmdFailed", stage, "", {"cmd", "rc", "err"}, cmd, rc, EmptyOut, msg, NoXml)

GlusterBusy(stage, cmd, rc, out, err) ==
    Outcome("GlusterBusy", stage, "", {"cmd", "rc", "out", "err"}, cmd, rc, out, err, NoXml)

_etreeExceptions == {"ParseError", "AttributeError", "ValueError"}

\* etree.tostring(xmltree): the tree serialised again, not the captured text
tostring(tree) == [form |-> "tostring", doc |-> tree]
\* the captured stdout itself
raw(out) == [form |-> "raw", doc |-> out]

----------------------------------------------------------------------------
(* Command prefixes *)

glusterCmd == "/usr/sbin/gluster"

_getGlusterVolCmd == <<glusterCmd, "--mode=script", "volume">>
_getGlusterPeerCmd == <<glusterCmd, "--mode=script", "peer">>
_getGlusterSystemCmd == <<glusterCmd, "system::">>
_getGlusterVolGeoRepCmd == _getGlusterVolCmd \o <<"geo-replication">>
_getGlusterSnapshotCmd == <<glusterCmd, "--mode=script", "snapshot">>

----------------------------------------------------------------------------
(* Running a command *)

\* _throwIfBusy looking for the marker only when the command failed
throwIfBusyOnFailure(cmd, rc, out, err) ==
    LET o == chars(out) \o err
    IN  IF rc # 0 /\ contains(_TRANS_IN_PROGRESS, lower(o))
        THEN GlusterBusy("busy", cmd, rc, out, err)
        ELSE NoExc

\* the exception _throwIfBusy raises, or NoExc
_throwIfBusy(cmd, rc, out, err) ==
    LET o == chars(out) \o err
    IN  IF contains(_TRANS_IN_PROGRESS, lower(o))
        THEN GlusterBusy("busy", cmd, rc, out, err)
        ELSE NoExc

\* _execGluster(cmd) when utils.execCmd returns reply: the command run, the
\* exception raised (or NoExc) and the stages gone through
_execGluster(cmd, reply) ==
    [cmd |-> cmd,
     exc |-> _throwIfBusy(cmd, reply.rc, reply.out, reply.err),
     stages |-> <<"busy">>,
     rc |-> reply.rc, out |-> reply.out, err |-> reply.err]

isNumeric(s) == s \in {"0", "-1", "2", "3"}

\* int(s) for a numeric s
int(s) == CASE s = "0" -> 0 [] s = "-1" -> -1 [] s = "2" -> 2 [] s = "3" -> 3 [] OTHER -> 0

\* the class of the exception int(tree.find(tag).text) raises, or "none"
intFieldRaises(field) ==
    IF field = ABSENT THEN "AttributeError"
    ELSE IF field = NONE THEN "TypeError"
    ELSE IF ~isNumeric(field) THEN "ValueError"
    ELSE "none"

\* the class of the exception the try block of _execGlusterXml raises, or "none"
decodeRaises(out) ==
    IF ~out.wf THEN "ParseError"
    ELSE IF intFieldRaises(out.opRet) # "none" THEN intFieldRaises(out.opRet)
    ELSE IF ~out.opErrstr.present THEN "AttributeError"
    ELSE intFieldRaises(out.opErrno)

\* _execGlusterXml decoding the envelope before it looks for the busy marker
execGlusterXmlDecodeFirst(cmd, reply) ==
    LET xcmd == Append(cmd, "--xml")
        busy == _throwIfBusy(xcmd, reply.rc, reply.out, reply.err)
        dec == decodeRaises(reply.out)
        rv == int(reply.out.opRet)
        msg == reply.out.opErrstr.text
        errNo == int(reply.out.opErrno)
        base == [cmd |-> xcmd, tree |-> reply.out]
    IN  IF dec \in _etreeExceptions
        THEN base @@ [exc |-> GlusterXMLError("decode", xcmd, raw(reply.out)),
                      stages |-> <<"decode">>]
        ELSE IF dec # "none"
        THEN base @@ [exc |-> Bare(dec, "decode"), stages |-> <<"decode">>]
        ELSE IF busy # NoExc
        THEN base @@ [exc |-> busy, stages |-> <<"decode", "busy">>]
        ELSE IF rv = 0
        THEN base @@ [exc |-> NoExc, stages |-> <<"decode", "busy", "outcome">>]
        ELSE base @@ [exc |-> GlusterCmdFailed("outcome", xcmd,
                                               IF errNo # 0 THEN errNo ELSE rv, msg),
                      stages |-> <<"decode", "busy", "outcome">>]

\* _execGlusterXml reporting the outcome code even when opErrno is set
execGlusterXmlOutcomeCodeOnly(cmd, reply) ==
    LET xcmd == Append(cmd, "--xml")
        busy == _throwIfBusy(xcmd, reply.rc, reply.out, reply.err)
        dec == decodeRaises(reply.out)
        rv == int(reply.out.opRet)
        msg == reply.out.opErrstr.text
        base == [cmd |-> xcmd, tree |-> reply.out]
    IN  IF busy # NoExc
        THEN base @@ [exc |-> busy, stages |-> <<"busy">>]
        ELSE IF dec \in _etreeExceptions
        THEN base @@ [exc |-> GlusterXMLError("decode", xcmd, raw(reply.out)),
                      stages |-> <<"busy", "decode">>]
        ELSE IF dec # "none"
        THEN base @@ [exc |-> Bare(dec, "decode"), stages |-> <<"busy", "decode">>]
        ELSE IF rv = 0
        THEN base @@ [exc |-> NoExc, stages |-> <<"busy", "decode", "outcome">>]
        ELSE base @@ [exc |-> GlusterCmdFailed("outcome", xcmd, rv, msg),
                      stages |-> <<"busy", "decode", "outcome">>]

\* _execGlusterXml(cmd) when utils.execCmd returns reply: the command as run
\* (cmd is extended in place), the exception raised (or NoExc, and then the
\* tree returned) and the stages gone through
_execGlusterXml(cmd, reply) ==
    LET xcmd == Append(cmd, "--xml")
        busy == _throwIfBusy(xcmd, reply.rc, reply.out, reply.err)
        dec == decodeRaises(reply.out)
        rv == int(reply.out.opRet)
        msg == reply.out.opErrstr.text
        errNo == int(reply.out.opErrno)
        base == [cmd |-> xcmd, tree |-> reply.out]
    IN  IF busy # NoExc
        THEN base @@ [exc |-> busy, stages |-> <<"busy">>]
        ELSE IF dec \in _etreeExceptions
        THEN base @@ [exc |-> GlusterXMLError("decode", xcmd, raw(reply.out)),
                      stages |-> <<"busy", "decode">>]
        ELSE IF dec # "none"
        THEN base @@ [exc |-> Bare(dec, "decode"), stages |-> <<"busy", "decode">>]
        ELSE IF rv = 0
        THEN base @@ [exc |-> NoExc, stages |-> <<"busy", "decode", "outcome">>]
        ELSE base @@ [exc |-> GlusterCmdFailed("outcome", xcmd,
                                               IF errNo # 0 THEN errNo ELSE rv, msg),
                      stages |-> <<"busy", "decode", "outcome">>]

----------------------------------------------------------------------------
(* Local identity *)

\* what the host's resolver and interfaces report: the address of the fqdn
\* and the addresses of the active devices ("IOError": get_ipaddr raises)
LocalEnvs ==
    { [fqdn |-> "node.example", ip |-> "10.0.0.1", devs |-> <<>>],
      [fqdn |-> "node.example", ip |-> "127.0.0.1",
       devs |-> <<"127.0.0.1", "IOError", "10.0.0.2">>],
      [fqdn |-> "node.example", ip |-> "127.0.0.1", devs |-> <<"127.0.0.1">>] }

\* ip.startswith('127.')
isLoopback(ip) == ip \in {"127.0.0.1", "127.0.1.1"}

RECURSIVE firstDeviceAddress(_)
\* the loop over ethtool.get_active_devices(): the first address that is not
\* a loopback address, "" when there is none
firstDeviceAddress(devs) ==
    IF devs = <<>> THEN ""
    ELSE IF Head(devs) # "IOError" /\ ~isLoopback(Head(devs)) THEN Head(devs)
    ELSE firstDeviceAddress(Tail(devs))

\* _getLocalPeer() with global _peer = p: the value returned and the new _peer
_getLocalPeer(p, env) ==
    IF p # "" THEN [ret |-> p, peer |-> p]
    ELSE IF ~isLoopback(env.ip) THEN [ret |-> env.ip, peer |-> env.ip]
    ELSE IF firstDeviceAddress(env.devs) # ""
    THEN [ret |-> firstDeviceAddress(env.devs), peer |-> firstDeviceAddress(env.devs)]
    ELSE [ret |-> env.fqdn, peer |-> p]

\* what "gluster system:: uuid get" can answer
UuidReplies ==
    { [rc |-> 0, out |-> PlainOut(<<"UUID: ", "u1", "\n">>), err |-> <<>>],
      [rc |-> 1, out |-> PlainOut(<<>>), err |-> <<"Failed">>],
      [rc |-> 0, out |-> PlainOut(<<"Another Transaction ", "Is In Progress">>),
       err |-> <<>>] }

NoReply == [rc |-> 0, out |-> EmptyOut, err |-> <<>>]

isSpace(w) == w \in {"\n", " "}

RECURSIVE lstrip(_)
lstrip(s) == IF s # <<>> /\ isSpace(Head(s)) THEN lstrip(Tail(s)) ELSE s

RECURSIVE rstrip(_)
rstrip(s) ==
    IF s # <<>> /\ isSpace(s[Len(s)]) THEN rstrip(SubSeq(s, 1, Len(s) - 1)) ELSE s

\* str.strip()
strip(s) == rstrip(lstrip(s))

\* _getLocalPeerUUID without the "if _peerUUID: return _peerUUID" shortcut
getLocalPeerUUIDNoMemo(u, reply) ==
    LET command == _getGlusterSystemCmd \o <<"uuid", "get">>
        x == _execGluster(command, reply)
        o == strip(chars(reply.out))
        found == IF o # <<>> /\ o[1] = "UUID: " THEN join("", Tail(o)) ELSE u
    IN  IF x.exc # NoExc
        THEN [log |-> <<command>>, exc |-> x.exc, ret |-> "", uuid |-> u]
        ELSE [log |-> <<command>>, exc |-> NoExc, ret |-> found, uuid |-> found]

\* _getLocalPeerUUID() with global _peerUUID = u: the commands run, the
\* exception raised (or NoExc), the value returned and the new _peerUUID
_getLocalPeerUUID(u, reply) ==
    LET command == _getGlusterSystemCmd \o <<"uuid", "get">>
        x == _execGluster(command, reply)
        o == strip(chars(reply.out))
        found == IF o # <<>> /\ o[1] = "UUID: " THEN join("", Tail(o)) ELSE u
    IN  IF u # ""
        THEN [log |-> <<>>, exc |-> NoExc, ret |-> u, uuid |-> u]
        ELSE IF x.exc # NoExc
        THEN [log |-> <<command>>, exc |-> x.exc, ret |-> "", uuid |-> u]
        ELSE [log |-> <<command>>, exc |-> NoExc, ret |-> found, uuid |-> found]

----------------------------------------------------------------------------
(* Entity mappers on response trees *)

\* what a mapper ends with: the class of the exception it raises ("none":
\* it returns) and the value it returns
Mapped(value) == [raises |-> "none", value |-> value]
MapperRaises(class) == [raises |-> class, value |-> <<>>]

\* s.replace(old, new), old being one character
replace(s, old, new) == [i \in 1..Len(s) |-> IF s[i] = old THEN new ELSE s[i]]

\* the entries of findall('bricks/brick'): the element's own text and its
\* name and hostUuid children (ABSENT: the child is not there)
FullBrick(i) == [text |-> brickName(i), name |-> brickName(i), hostUuid |-> "uuid" \o str(i)]
LegacyBrick(i) == [text |-> brickName(i), name |-> ABSENT, hostUuid |-> ABSENT]
NoUuidBrick(i) == [text |-> brickName(i), name |-> brickName(i), hostUuid |-> ABSENT]

BrickNodes(i) == {FullBrick(i), LegacyBrick(i), NoUuidBrick(i)}

\* the brick nodes a <volume> can hold: none to MaxBricks of them
BrickNodeLists ==
    UNION { { nodes \in [1..n -> UNION {BrickNodes(i) : i \in 1..MaxBricks}] :
                \A i \in 1..n : nodes[i] \in BrickNodes(i) } : n \in 0..MaxBricks }

\* a <volume> element of "volume info"
VolumeElement(name, typeStr, statusStr, brickCount, transport, bricks, options) ==
    [name |-> name, id |-> "id-" \o name, typeStr |-> typeStr, statusStr |-> statusStr,
     brickCount |-> brickCount, distCount |-> "1", stripeCount |-> "1",
     replicaCount |-> "1", transport |-> transport, bricks |-> bricks,
     options |-> options]

NoOptions == <<>>
OneOption == <<[name |-> "auth.allow", value |-> "*"]>>

VolumeElements ==
    { VolumeElement("vol1", Element(<<"Distribute">>), Element(<<"Started">>), c, "0",
                    b, NoOptions) : c \in {"1", "2"}, b \in BrickNodeLists }
    \cup { VolumeElement("vol2", Element(<<"Distributed", "-", "Replicate">>),
                         Element(st), "1", t, <<FullBrick(1)>>, o) :
             st \in {<<"Started">>, <<"Stopped">>}, t \in {"0", "1", "2"},
             o \in {NoOptions, OneOption} }
    \cup { VolumeElement("vol1", NoElement, Element(<<"Started">>), "1", "0",
                         <<FullBrick(1)>>, NoOptions),
           VolumeElement("vol1", Element(<<"Distribute">>), Element(<<"Started">>), ABSENT,
                         "0", <<FullBrick(1)>>, NoOptions),
           VolumeElement("vol1", Element(<<"Distribute">>), Element(<<"Started">>), "1", "0",
                         <<FullBrick(1)>>, <<[name |-> "auth.allow", value |-> ABSENT]>>) }

\* the responses to "volume info": no volume, one volume, two volumes
VolumeInfoTrees ==
    { <<>> } \cup { <<v>> : v \in VolumeElements }
    \cup { <<v, VolumeElement("vol2", Element(<<"Distribute">>), Element(<<"Stopped">>),
                              "2", "0", <<LegacyBrick(1), FullBrick(2)>>, NoOptions)>> :
             v \in { w \in VolumeElements : w.options = OneOption } }

\* a <node> element of "volume status", by the texts of its children
\* (ABSENT: no such child; NONE: the child is empty)
StatusNode(hostname, path, status, pid) ==
    [hostname |-> hostname, path |-> path, peerid |-> "uuid-" \o pid, status |-> status,
     port |-> "49152", pid |-> pid]

StatusNodes(pid) ==
    { StatusNode(h, p, st, pid) :
        h \in {"NFS Server", "Self-heal Daemon", "host1"}, p \in {"localhost", "/b"},
        st \in {"1", "0"} }
    \cup { StatusNode("host1", "/b", NONE, pid),
           StatusNode("host1", ABSENT, "1", pid),
           StatusNode("NFS Server", "localhost", ABSENT, pid) }

\* the responses to "volume status <volume>": the i-th node has pid i
VolumeStatusTrees ==
    UNION { { nodes \in [1..n -> UNION {StatusNodes(str(i)) : i \in 1..MaxNodes}] :
                \A i \in 1..n : nodes[i] \in StatusNodes(str(i)) } : n \in 0..MaxNodes }

\* value[ch.tag] = ch.text or ''
textOrEmpty(text) == IF text = NONE THEN "" ELSE text

\* value[tag] raises KeyError for some tag _parseVolumeStatus reads
statusNodeRaises(el) ==
    \E tag \in {"path", "status", "hostname", "peerid", "port", "pid"} : el[tag] = ABSENT

\* statusEntry taking every status code but "0" for ONLINE
statusEntryOnlineUnlessZero(el, hostname) ==
    LET path == IF textOrEmpty(el.path) = "localhost" THEN hostname
                ELSE textOrEmpty(el.path)
        status == IF textOrEmpty(el.status) # "0" THEN "ONLINE" ELSE "OFFLINE"
    IN  IF textOrEmpty(el.hostname) = "NFS Server"
        THEN [list |-> "nfs",
              entry |-> [hostname |-> path, hostuuid |-> textOrEmpty(el.peerid),
                         port |-> textOrEmpty(el.port), status |-> status,
                         pid |-> textOrEmpty(el.pid)]]
        ELSE IF textOrEmpty(el.hostname) = "Self-heal Daemon"
        THEN [list |-> "shd",
              entry |-> [hostname |-> path, hostuuid |-> textOrEmpty(el.peerid),
                         status |-> status, pid |-> textOrEmpty(el.pid)]]
        ELSE [list |-> "bricks",
              entry |-> [brick |-> textOrEmpty(el.hostname) \o ":" \o path,
                         hostuuid |-> textOrEmpty(el.peerid),
                         port |-> textOrEmpty(el.port), status |-> status,
                         pid |-> textOrEmpty(el.pid)]]

\* the entry the loop of _parseVolumeStatus builds for one <node>, and the
\* list it is appended to
statusEntry(el, hostname) ==
    LET path == IF textOrEmpty(el.path) = "localhost" THEN hostname
                ELSE textOrEmpty(el.path)
        status == IF textOrEmpty(el.status) = "1" THEN "ONLINE" ELSE "OFFLINE"
    IN  IF textOrEmpty(el.hostname) = "NFS Server"
        THEN [list |-> "nfs",
              entry |-> [hostname |-> path, hostuuid |-> textOrEmpty(el.peerid),
                         port |-> textOrEmpty(el.port), status |-> status,
                         pid |-> textOrEmpty(el.pid)]]
        ELSE IF textOrEmpty(el.hostname) = "Self-heal Daemon"
        THEN [list |-> "shd",
              entry |-> [hostname |-> path, hostuuid |-> textOrEmpty(el.peerid),
                         status |-> status, pid |-> textOrEmpty(el.pid)]]
        ELSE [list |-> "bricks",
              entry |-> [brick |-> textOrEmpty(el.hostname) \o ":" \o path,
                         hostuuid |-> textOrEmpty(el.peerid),
                         port |-> textOrEmpty(el.port), status |-> status,
                         pid |-> textOrEmpty(el.pid)]]

RECURSIVE statusList(_, _, _)
\* status[list] after the loop over the nodes
statusList(list, elements, hostname) ==
    IF elements = <<>> THEN <<>>
    ELSE LET e == statusEntry(Head(elements), hostname)
         IN  (IF e.list = list THEN <<e.entry>> ELSE <<>>)
                \o statusList(list, Tail(elements), hostname)

\* _parseVolumeStatus(tree) when _getLocalPeer() returns hostname, elements
\* being tree.findall('volStatus/volumes/volume/node')
_parseVolumeStatus(elements, hostname) ==
    IF \E i \in 1..Len(elements) : statusNodeRaises(elements[i])
    THEN MapperRaises("KeyError")
    ELSE Mapped([name |-> "vol1",
                 bricks |-> statusList("bricks", elements, hostname),
                 nfs |-> statusList("nfs", elements, hostname),
                 shd |-> statusList("shd", elements, hostname)])

\* the loop of _parseVolumeStatus replaces a path "localhost"
substitutes(tree) ==
    \/ tree.body = "local"
    \/ /\ tree.body = "tree"
       /\ \E i \in 1..Len(tree.elements) : tree.elements[i].path = "localhost"

\* a <peer> element of "peer status", the i-th of its response
PeerElement(i, state, connected) ==
    [hostname |-> "host" \o i, uuid |-> "uuid-" \o i, state |-> state,
     connected |-> connected]

PeerElements(i) ==
    { PeerElement(i, st, c) : st \in {"3", "7"}, c \in {"1", "0"} }
    \cup { [PeerElement(i, "3", "1") EXCEPT !.hostname = ABSENT],
           [PeerElement(i, "3", "1") EXCEPT !.state = ABSENT],
           [PeerElement(i, "3", "1") EXCEPT !.hostname = NONE] }

\* the responses to "peer status"
PeerStatusTrees ==
    UNION { { peers \in [1..n -> UNION {PeerElements(str(i)) : i \in 1..MaxNodes}] :
                \A i \in 1..n : peers[i] \in PeerElements(str(i)) } : n \in 0..MaxNodes }

\* the body of the loop of _parsePeerStatus raises AttributeError
peerElementRaises(el) ==
    \/ el.state = ABSENT
    \/ el.state = "3" /\ el.connected = ABSENT
    \/ el.hostname = ABSENT \/ el.uuid = ABSENT

\* the entry the loop of _parsePeerStatus appends for one <peer>
peerEntry(el) ==
    [hostname |-> el.hostname,
     uuid |-> el.uuid,
     status |-> IF el.state # "3" THEN "UNKNOWN"
                ELSE IF el.connected = "1" THEN "CONNECTED"
                ELSE "DISCONNECTED"]

\* _parsePeerStatus that lists the peers of the response only
parsePeerStatusResponseOnly(elements, gHostName, gUuid, gStatus) ==
    IF \E i \in 1..Len(elements) : peerElementRaises(elements[i])
    THEN MapperRaises("AttributeError")
    ELSE Mapped([i \in 1..Len(elements) |-> peerEntry(elements[i])])

\* _parsePeerStatus(tree, gHostName, gUuid, gStatus), elements being
\* tree.findall('peerStatus/peer')
_parsePeerStatus(elements, gHostName, gUuid, gStatus) ==
    IF \E i \in 1..Len(elements) : peerElementRaises(elements[i])
    THEN MapperRaises("AttributeError")
    ELSE Mapped(<<[hostname |-> gHostName, uuid |-> gUuid, status |-> gStatus]>>
                    \o [i \in 1..Len(elements) |-> peerEntry(elements[i])])

\* the statusStr texts of rebalance, remove-brick and task responses
StatusTokens ==
    { <<"completed">>, <<"in", " ", "progress">>, <<"not", "-", "started">>,
      <<"Not", " ", "started">>, <<"IN", "_", "PROGRESS">> }

\* the <type> texts of task responses
TypeTokens ==
    { <<"Rebalance">>, <<"Replace", " ", "brick">>, <<"Remove", "-", "brick">>,
      <<"REMOVE", "_", "BRICK">> }

\* "st.replace(' ', '_').replace('-', ' ').upper()": the second replace
\* putting a space where it should put an underscore
normalizeStatusHyphenToSpace(st) == upper(replace(replace(st, " ", "_"), "-", " "))

\* "st.replace(' ', '_').replace('-', '_')", then ".upper()" (lines 565-566,
\* 575, 578-579, 588)
normalizeStatus(st) == upper(replace(replace(st, " ", "_"), "-", "_"))

\* ".upper().replace('-', '_').replace(' ', '_')" (lines 812, 824-826)
normalizeTask(t) == replace(replace(upper(t), "-", "_"), " ", "_")

\* the counters of an <aggregate> or <node> element
Counters(statusStr) ==
    [statusStr |-> statusStr, runtime |-> "1.00", lookups |-> "4", files |-> "2",
     failures |-> "0", skipped |-> "0", size |-> "2048"]

\* the i-th <node> of a rebalance or remove-brick response
RebalanceNode(i, statusStr) ==
    Counters(statusStr) @@ [nodeName |-> "host" \o i, id |-> "uuid-" \o i]

RebalanceNodes(i) ==
    { RebalanceNode(i, Element(st)) :
        st \in {<<"completed">>, <<"not", "-", "started">>, <<"IN", "_", "PROGRESS">>} }
    \cup { RebalanceNode(i, NoElement) }

RebalanceNodeLists ==
    UNION { { nodes \in [1..n -> UNION {RebalanceNodes(str(i)) : i \in 1..MaxNodes}] :
                \A i \in 1..n : nodes[i] \in RebalanceNodes(str(i)) } : n \in 0..MaxNodes }

\* the responses to rebalance/remove-brick stop and status: the <volRebalance>
\* or <volRemoveBrick> element, or nothing in its place
RebalanceTrees ==
    { <<>> }
    \cup { <<[aggregate |-> Counters(Element(st)), nodes |-> nodes]>> :
             st \in StatusTokens, nodes \in RebalanceNodeLists }
    \cup { <<[aggregate |-> Counters(NoElement), nodes |-> <<>>]>> }

\* the summary or a hosts entry built from the counters
rebalanceCounts(el) ==
    [runtime |-> el.runtime, filesScanned |-> el.lookups, filesMoved |-> el.files,
     filesFailed |-> el.failures, filesSkipped |-> el.skipped,
     totalSizeMoved |-> el.size, status |-> normalizeStatus(el.statusStr.text)]

\* _parseVolumeRebalanceRemoveBrickStatus(xmltree, mode), elements being what
\* xmltree.find('volRebalance') or xmltree.find('volRemoveBrick') gives
_parseVolumeRebalanceRemoveBrickStatus(elements) ==
    IF elements = <<>> THEN MapperRaises("AttributeError")
    ELSE LET tree == elements[1]
         IN  IF \/ ~tree.aggregate.statusStr.present
                \/ \E i \in 1..Len(tree.nodes) : ~tree.nodes[i].statusStr.present
             THEN MapperRaises("AttributeError")
             ELSE Mapped([summary |-> rebalanceCounts(tree.aggregate),
                          hosts |-> [i \in 1..Len(tree.nodes) |->
                                        rebalanceCounts(tree.nodes[i])
                                            @@ [name |-> tree.nodes[i].nodeName,
                                                id |-> tree.nodes[i].id]]])

\* the i-th <task> of a volume: srcBrick and dstBrick are the children of
\* <params> a replace-brick task has, bricks the <brick> children of <params>
TaskElement(i, type, statusStr, srcBrick) ==
    [type |-> type, id |-> "task-" \o i, statusStr |-> statusStr,
     srcBrick |-> srcBrick, dstBrick |-> brickName(2), bricks |-> <<brickName(1)>>]

TaskElements(i) ==
    { TaskElement(i, Element(t), Element(st), brickName(1)) :
        t \in TypeTokens, st \in {<<"in", " ", "progress">>, <<"not", "-", "started">>} }
    \cup { TaskElement(i, Element(<<"Replace", " ", "brick">>), Element(<<"completed">>),
                       ABSENT),
           TaskElement(i, NoElement, Element(<<"completed">>), brickName(1)) }

\* the responses to "volume status <volume> tasks": one volume with its tasks
VolumeTasksTrees ==
    { <<>> }
    \cup UNION { { <<[volName |-> "vol1", tasks |-> tasks]>> :
                     tasks \in { ts \in [1..n -> UNION {TaskElements(str(i)) :
                                                          i \in 1..MaxNodes}] :
                                   \A i \in 1..n : ts[i] \in TaskElements(str(i)) } } :
                 n \in 0..MaxNodes }

\* the body of the inner loop of _parseVolumeTasks raises AttributeError
taskElementRaises(c) ==
    \/ ~c.type.present \/ ~c.statusStr.present \/ c.id = ABSENT
    \/ /\ normalizeTask(c.type.text) = <<"REPLACE", "_", "BRICK">>
       /\ (c.srcBrick = ABSENT \/ c.dstBrick = ABSENT)

\* tasks[taskId] for one <task>
taskValue(volumeName, c) ==
    LET taskType == normalizeTask(c.type.text)
    IN  [volumeName |-> volumeName,
         taskType |-> taskType,
         status |-> normalizeTask(c.statusStr.text),
         bricks |-> IF taskType = <<"REPLACE", "_", "BRICK">>
                    THEN <<c.srcBrick, c.dstBrick>>
                    ELSE IF taskType = <<"REMOVE", "_", "BRICK">> THEN c.bricks
                    ELSE <<>>]

RECURSIVE tasksOf(_, _)
\* tasks[taskId] = {...} for the tasks of one volume, in order
tasksOf(volumeName, tasks) ==
    IF tasks = <<>> THEN <<>>
    ELSE LET c == tasks[Len(tasks)]
         IN  (c.id :> taskValue(volumeName, c))
                @@ tasksOf(volumeName, SubSeq(tasks, 1, Len(tasks) - 1))

RECURSIVE allTasksOf(_)
\* the outer loop of _parseVolumeTasks
allTasksOf(elements) ==
    IF elements = <<>> THEN <<>>
    ELSE LET el == elements[Len(elements)]
         IN  tasksOf(el.volName, el.tasks)
                @@ allTasksOf(SubSeq(elements, 1, Len(elements) - 1))

\* _parseVolumeTasks(tree), elements being tree.findall('volStatus/volumes/volume')
_parseVolumeTasks(elements) ==
    IF \E i \in 1..Len(elements) :
          \/ elements[i].volName = ABSENT
          \/ \E j \in 1..Len(elements[i].tasks) : taskElementRaises(elements[i].tasks[j])
    THEN MapperRaises("AttributeError")
    ELSE Mapped(allTasksOf(elements))

RECURSIVE bricksInfoSkipping(_)
\* bricksInfoOf going on with the next brick ("continue") where the code
\* stops ("break")
bricksInfoSkipping(bricks) ==
    IF bricks = <<>> THEN <<>>
    ELSE IF Head(bricks).name = ABSENT \/ Head(bricks).hostUuid = ABSENT
    THEN bricksInfoSkipping(Tail(bricks))
    ELSE <<[name |-> Head(bricks).name, hostUuid |-> Head(bricks).hostUuid]>>
            \o bricksInfoSkipping(Tail(bricks))

RECURSIVE bricksInfoOf(_)
\* the second loop over findall('bricks/brick') in _parseVolumeInfo: a brick
\* detail per brick until a brick has no name or no hostUuid child
bricksInfoOf(bricks) ==
    IF bricks = <<>> THEN <<>>
    ELSE IF Head(bricks).name = ABSENT \/ Head(bricks).hostUuid = ABSENT THEN <<>>
    ELSE <<[name |-> Head(bricks).name, hostUuid |-> Head(bricks).hostUuid]>>
            \o bricksInfoOf(Tail(bricks))

RECURSIVE optionsOf(_)
\* value['options'][o.find('name').text] = o.find('value').text, in order
optionsOf(options) ==
    IF options = <<>> THEN <<>>
    ELSE LET o == options[Len(options)]
         IN  (o.name :> o.value) @@ optionsOf(SubSeq(options, 1, Len(options) - 1))

\* the body of the loop of _parseVolumeInfo raises AttributeError: an
\* element it reads through find(tag).text is not there
volumeInfoElementRaises(el) ==
    \/ el.name = ABSENT \/ el.id = ABSENT
    \/ ~el.typeStr.present \/ ~el.statusStr.present
    \/ el.brickCount = ABSENT \/ el.distCount = ABSENT
    \/ el.stripeCount = ABSENT \/ el.replicaCount = ABSENT
    \/ el.transport = ABSENT
    \/ \E i \in 1..Len(el.options) :
          el.options[i].name = ABSENT \/ el.options[i].value = ABSENT

\* volumeInfoValue filling bricks inside the backward-compatibility loop, so
\* that it stops with bricksInfo at the first brick without name or hostUuid
volumeInfoValueBricksInDetailLoop(el) ==
    [volumeName |-> el.name,
     uuid |-> el.id,
     volumeType |-> replace(upper(el.typeStr.text), "-", "_"),
     volumeStatus |-> IF upper(el.statusStr.text) = <<"STARTED">> THEN "ONLINE"
                      ELSE "OFFLINE",
     brickCount |-> el.brickCount,
     distCount |-> el.distCount,
     stripeCount |-> el.stripeCount,
     replicaCount |-> el.replicaCount,
     transportType |-> IF el.transport = "0" THEN <<"TCP">>
                       ELSE IF el.transport = "1" THEN <<"RDMA">>
                       ELSE <<"TCP", "RDMA">>,
     bricks |-> [i \in 1..Len(bricksInfoOf(el.bricks)) |-> el.bricks[i].text],
     options |-> optionsOf(el.options),
     bricksInfo |-> bricksInfoOf(el.bricks)]

\* the value the loop of _parseVolumeInfo builds for one <volume>
volumeInfoValue(el) ==
    [volumeName |-> el.name,
     uuid |-> el.id,
     volumeType |-> replace(upper(el.typeStr.text), "-", "_"),
     volumeStatus |-> IF upper(el.statusStr.text) = <<"STARTED">> THEN "ONLINE"
                      ELSE "OFFLINE",
     brickCount |-> el.brickCount,
     distCount |-> el.distCount,
     stripeCount |-> el.stripeCount,
     replicaCount |-> el.replicaCount,
     transportType |-> IF el.transport = "0" THEN <<"TCP">>
                       ELSE IF el.transport = "1" THEN <<"RDMA">>
                       ELSE <<"TCP", "RDMA">>,
     bricks |-> [i \in 1..Len(el.bricks) |-> el.bricks[i].text],
     options |-> optionsOf(el.options),
     bricksInfo |-> bricksInfoOf(el.bricks)]

RECURSIVE volumesOf(_)
\* volumes[value['volumeName']] = value, in order
volumesOf(elements) ==
    IF elements = <<>> THEN <<>>
    ELSE LET el == elements[Len(elements)]
         IN  (el.name :> volumeInfoValue(el))
                @@ volumesOf(SubSeq(elements, 1, Len(elements) - 1))

\* _parseVolumeInfo(tree), elements being tree.findall('volInfo/volumes/volume')
_parseVolumeInfo(elements) ==
    IF \E i \in 1..Len(elements) : volumeInfoElementRaises(elements[i])
    THEN MapperRaises("AttributeError")
    ELSE Mapped(volumesOf(elements))

----------------------------------------------------------------------------
(* Entity mappers, by what they read *)

\* mappers that only walk findall() results at the top: a response without
\* the nodes maps to an empty entity
FindallMappers ==
    {"_parseVolumeInfo", "_parsePeerStatus", "_parseVolumeTasks", "_parseGeoRepStatus"}

\* mappers that read an entry's children through value[tag]
DictMappers == {"_parseVolumeStatus", "_parseVolumeStatusDetail"}

\* the class of the exception the mapper raises on a tree of this shape, or "none"
mapRaises(mapper, body) ==
    IF body \in {"full", "local"} THEN "none"
    ELSE IF mapper \in FindallMappers
    THEN (IF body = "noChild" THEN "AttributeError" ELSE "none")
    ELSE IF mapper \in DictMappers
    THEN (IF body = "noChild" THEN "KeyError" ELSE "AttributeError")
    ELSE "AttributeError"

\* the try/except around a mapper call in a facade function: the outcome of
\* "return mapper(xmltree)" with "except _etreeExceptions: raise GlusterXMLError"
outcomeOfMapper(m, command, tree) ==
    IF m.raises = "none" THEN Return(m.value)
    ELSE IF m.raises \in _etreeExceptions
    THEN GlusterXMLError("map", command, tostring(tree))
    ELSE Bare(m.raises, "map")

\* mapper(tree) for the mappers that read nothing but the tree
treeMapper(mapper, elements) ==
    CASE mapper = "_parseVolumeInfo" -> _parseVolumeInfo(elements)
      [] mapper = "_parseVolumeRebalanceRemoveBrickStatus" ->
            _parseVolumeRebalanceRemoveBrickStatus(elements)
      [] mapper = "_parseVolumeTasks" -> _parseVolumeTasks(elements)
      [] OTHER -> Mapped(mapper)

\* mapper(xmltree): on a tree given by its shape, the entity stands for itself
mapperResult(mapper, tree) ==
    IF tree.body = "tree" THEN treeMapper(mapper, tree.elements)
    ELSE [raises |-> mapRaises(mapper, tree.body), value |-> mapper]

mapOutcome(mapper, command, tree) ==
    outcomeOfMapper(mapperResult(mapper, tree), command, tree)

----------------------------------------------------------------------------
(* Facade calls *)

\* the call op(args), whose command was answered with reply, had ran raised by
\* _execGluster/_execGlusterXml (or NoExc), ran the commands of log, went
\* through the stages stg and ended with res, leaving the globals at p and u
FinishSubstituting(op, args, reply, ran, log, stg, res, p, u, subs) ==
    /\ pc' = "returned"
    /\ call' = [op |-> op, args |-> args, reply |-> reply,
                peer0 |-> _peer, uuid0 |-> _peerUUID]
    /\ execResult' = ran
    /\ execLog' = log
    /\ stages' = stg
    /\ result' = res
    /\ _peer' = p
    /\ _peerUUID' = u
    /\ substitutions' = subs
    /\ UNCHANGED threadVars

\* a call that is not a volume status substitutes nothing
Finish(op, args, reply, ran, log, stg, res, p, u) ==
    FinishSubstituting(op, args, reply, ran, log, stg, res, p, u, substitutions)

\* a function of the shape "_execGlusterXml(command); return True"
AckXml(op, args, command) ==
    \E reply \in Replies :
        LET x == _execGlusterXml(command, reply)
        IN  Finish(op, args, reply, x.exc, <<x.cmd>>, x.stages,
                   IF x.exc # NoExc THEN x.exc ELSE Return("True"),
                   _peer, _peerUUID)

\* a function of the shape "xmltree = _execGlusterXml(command); try: return
\* mapper(xmltree); except _etreeExceptions: raise GlusterXMLError(...)"
MapXmlOn(replies, op, args, command, mapper) ==
    \E reply \in replies :
        LET x == _execGlusterXml(command, reply)
        IN  IF x.exc # NoExc
            THEN Finish(op, args, reply, x.exc, <<x.cmd>>, x.stages, x.exc, _peer, _peerUUID)
            ELSE Finish(op, args, reply, x.exc, <<x.cmd>>, Append(x.stages, "map"),
                        mapOutcome(mapper, x.cmd, x.tree), _peer, _peerUUID)

MapXml(op, args, command, mapper) == MapXmlOn(Replies, op, args, command, mapper)

\* utils.execCmd succeeding with one of these response trees on stdout
TreeReplies(trees) == [rc : {0}, out : {XmlTree(t) : t \in trees}, err : {<<>>}]

\* a function of the shape "_execGluster(command); return True"
AckPlain(op, args, command) ==
    \E reply \in Replies :
        LET x == _execGluster(command, reply)
        IN  Finish(op, args, reply, x.exc, <<x.cmd>>, x.stages,
                   IF x.exc # NoExc THEN x.exc ELSE Return("True"),
                   _peer, _peerUUID)

----------------------------------------------------------------------------
(* Arguments *)

\* the arguments of a function that takes none
NoArgs == <<>>

Volumes == {"vol1"}
Hosts == {"host2"}
Snapshots == {"snap1"}
Counts == 0..MaxCount
BrickLists == { [i \in 1..n |-> brickName(i)] : n \in 1..MaxBricks }
TransportLists == { <<>>, <<"tcp">>, <<"tcp", "rdma">> }

StatusOptions == {"", "detail", "clients", "mem"}

----------------------------------------------------------------------------
(* Volume status and info *)

volumeStatusCommand(volumeName, brick, option) ==
    _getGlusterVolCmd \o <<"status", volumeName>>
        \o (IF brick # "" THEN <<brick>> ELSE <<>>)
        \o (IF option # "" THEN <<option>> ELSE <<>>)

volumeStatusMapper(option) ==
    CASE option = "detail" -> "_parseVolumeStatusDetail"
      [] option = "clients" -> "_parseVolumeStatusClients"
      [] option = "mem" -> "_parseVolumeStatusMem"
      [] OTHER -> "_parseVolumeStatus"

volumeStatus ==
    /\ pc = "idle"
    /\ \E volumeName \in Volumes, brick \in {"", brickName(1)}, option \in StatusOptions :
       \E reply \in IF option \in {"detail", "clients", "mem"} THEN Replies
                    ELSE Replies \cup TreeReplies(VolumeStatusTrees) :
        LET args == [volumeName |-> volumeName, brick |-> brick, option |-> option]
            x == _execGlusterXml(volumeStatusCommand(volumeName, brick, option), reply)
            mapper == volumeStatusMapper(option)
        IN  IF x.exc # NoExc
            THEN Finish("volumeStatus", args, reply, x.exc, <<x.cmd>>, x.stages, x.exc,
                        _peer, _peerUUID)
            ELSE IF mapper = "_parseVolumeStatus" /\ x.tree.body # "noNode"
            THEN \E env \in LocalEnvs :
                    LET p == _getLocalPeer(_peer, env)
                        m == IF x.tree.body = "tree"
                             THEN _parseVolumeStatus(x.tree.elements, p.ret)
                             ELSE mapperResult(mapper, x.tree)
                    IN  FinishSubstituting(
                            "volumeStatus", args, reply, x.exc, <<x.cmd>>,
                            Append(x.stages, "map"), outcomeOfMapper(m, x.cmd, x.tree),
                            p.peer, _peerUUID,
                            IF m.raises = "none" /\ substitutes(x.tree)
                            THEN substitutions \cup {p.ret} ELSE substitutions)
            ELSE Finish("volumeStatus", args, reply, x.exc, <<x.cmd>>,
                        Append(x.stages, "map"), mapOutcome(mapper, x.cmd, x.tree),
                        _peer, _peerUUID)

volumeInfoCommand(volumeName, remoteServer) ==
    _getGlusterVolCmd \o <<"info">>
        \o (IF remoteServer # "" THEN <<"--remote-host=" \o remoteServer>> ELSE <<>>)
        \o (IF volumeName # "" THEN <<volumeName>> ELSE <<>>)

volumeInfo ==
    /\ pc = "idle"
    /\ \E volumeName \in Volumes \cup {""}, remoteServer \in Hosts \cup {""} :
        MapXmlOn(Replies \cup TreeReplies(VolumeInfoTrees), "volumeInfo",
                 [volumeName |-> volumeName, remoteServer |-> remoteServer],
                 volumeInfoCommand(volumeName, remoteServer), "_parseVolumeInfo")

----------------------------------------------------------------------------
(* Volume life cycle *)

\* volumeCreate putting the replica count before the stripe count
volumeCreateCommandReplicaFirst(volumeName, brickList, replicaCount, stripeCount, transportList, force) ==
    _getGlusterVolCmd \o <<"create", volumeName>>
        \o (IF replicaCount # 0 THEN <<"replica", str(replicaCount)>> ELSE <<>>)
        \o (IF stripeCount # 0 THEN <<"stripe", str(stripeCount)>> ELSE <<>>)
        \o (IF transportList # <<>> THEN <<"transport", join(",", transportList)>> ELSE <<>>)
        \o brickList
        \o (IF force THEN <<"force">> ELSE <<>>)

volumeCreateCommand(volumeName, brickList, replicaCount, stripeCount, transportList, force) ==
    _getGlusterVolCmd \o <<"create", volumeName>>
        \o (IF stripeCount # 0 THEN <<"stripe", str(stripeCount)>> ELSE <<>>)
        \o (IF replicaCount # 0 THEN <<"replica", str(replicaCount)>> ELSE <<>>)
        \o (IF transportList # <<>> THEN <<"transport", join(",", transportList)>> ELSE <<>>)
        \o brickList
        \o (IF force THEN <<"force">> ELSE <<>>)

volumeCreate ==
    /\ pc = "idle"
    /\ \E volumeName \in Volumes, brickList \in BrickLists, replicaCount \in Counts,
       stripeCount \in Counts, transportList \in TransportLists, force \in BOOLEAN :
        MapXml("volumeCreate",
               [volumeName |-> volumeName, brickList |-> brickList,
                replicaCount |-> replicaCount, stripeCount |-> stripeCount,
                transportList |-> transportList, force |-> force],
               volumeCreateCommand(volumeName, brickList, replicaCount, stripeCount,
                                   transportList, force),
               "volumeCreate")

volumeStartCommand(volumeName, force) ==
    _getGlusterVolCmd \o <<"start", volumeName>> \o (IF force THEN <<"force">> ELSE <<>>)

volumeStart ==
    /\ pc = "idle"
    /\ \E volumeName \in Volumes, force \in BOOLEAN :
        AckPlain("volumeStart", [volumeName |-> volumeName, force |-> force],
                 volumeStartCommand(volumeName, force))

volumeStopCommand(volumeName, force) ==
    _getGlusterVolCmd \o <<"stop", volumeName>> \o (IF force THEN <<"force">> ELSE <<>>)

volumeStop ==
    /\ pc = "idle"
    /\ \E volumeName \in Volumes, force \in BOOLEAN :
        AckXml("volumeStop", [volumeName |-> volumeName, force |-> force],
               volumeStopCommand(volumeName, force))

volumeDelete ==
    /\ pc = "idle"
    /\ \E volumeName \in Volumes :
        AckXml("volumeDelete", [volumeName |-> volumeName],
               _getGlusterVolCmd \o <<"delete", volumeName>>)

volumeSet ==
    /\ pc = "idle"
    /\ \E volumeName \in Volumes, option \in {"auth.allow"}, value \in {"*"} :
        AckXml("volumeSet", [volumeName |-> volumeName, option |-> option, value |-> value],
               _getGlusterVolCmd \o <<"set", volumeName, option, value>>)

\* _parseVolumeSetHelpXml(out): the class of the exception raised, or "none"
_parseVolumeSetHelpXml(out) == IF ~out.wf THEN "ParseError" ELSE "none"

volumeSetHelpXml ==
    /\ pc = "idle"
    /\ \E reply \in Replies :
        LET x == _execGluster(_getGlusterVolCmd \o <<"set", "help-xml">>, reply)
            e == _parseVolumeSetHelpXml(reply.out)
        IN  IF x.exc # NoExc
            THEN Finish("volumeSetHelpXml", NoArgs, reply, x.exc, <<x.cmd>>, x.stages, x.exc,
                        _peer, _peerUUID)
            ELSE Finish("volumeSetHelpXml", NoArgs, reply, x.exc, <<x.cmd>>,
                        Append(x.stages, "parse"),
                        IF e = "none" THEN Return("optionList") ELSE Bare(e, "parse"),
                        _peer, _peerUUID)

volumeResetCommand(volumeName, option, force) ==
    _getGlusterVolCmd \o <<"reset", volumeName>>
        \o (IF option # "" THEN <<option>> ELSE <<>>)
        \o (IF force THEN <<"force">> ELSE <<>>)

volumeReset ==
    /\ pc = "idle"
    /\ \E volumeName \in Volumes, option \in {"", "auth.allow"}, force \in BOOLEAN :
        AckXml("volumeReset",
               [volumeName |-> volumeName, option |-> option, force |-> force],
               volumeResetCommand(volumeName, option, force))

volumeAddBrickCommand(volumeName, brickList, replicaCount, stripeCount, force) ==
    _getGlusterVolCmd \o <<"add-brick", volumeName>>
        \o (IF stripeCount # 0 THEN <<"stripe", str(stripeCount)>> ELSE <<>>)
        \o (IF replicaCount # 0 THEN <<"replica", str(replicaCount)>> ELSE <<>>)
        \o brickList
        \o (IF force THEN <<"force">> ELSE <<>>)

volumeAddBrick ==
    /\ pc = "idle"
    /\ \E volumeName \in Volumes, brickList \in BrickLists, replicaCount \in Counts,
       stripeCount \in Counts, force \in BOOLEAN :
        AckXml("volumeAddBrick",
               [volumeName |-> volumeName, brickList |-> brickList,
                replicaCount |-> replicaCount, stripeCount |-> stripeCount,
                force |-> force],
               volumeAddBrickCommand(volumeName, brickList, replicaCount, stripeCount,
                                     force))

----------------------------------------------------------------------------
(* Rebalance *)

volumeRebalanceStartCommand(volumeName, rebalanceType, force) ==
    _getGlusterVolCmd \o <<"rebalance", volumeName>>
        \o (IF rebalanceType # "" THEN <<rebalanceType>> ELSE <<>>)
        \o <<"start">>
        \o (IF force THEN <<"force">> ELSE <<>>)

volumeRebalanceStart ==
    /\ pc = "idle"
    /\ \E volumeName \in Volumes, rebalanceType \in {"", "fix-layout"}, force \in BOOLEAN :
        MapXml("volumeRebalanceStart",
               [volumeName |-> volumeName, rebalanceType |-> rebalanceType,
                force |-> force],
               volumeRebalanceStartCommand(volumeName, rebalanceType, force),
               "volumeRebalanceStart")

volumeRebalanceStopCommand(volumeName, force) ==
    _getGlusterVolCmd \o <<"rebalance", volumeName, "stop">>
        \o (IF force THEN <<"force">> ELSE <<>>)

volumeRebalanceStop ==
    /\ pc = "idle"
    /\ \E volumeName \in Volumes, force \in BOOLEAN :
        MapXmlOn(Replies \cup TreeReplies(RebalanceTrees), "volumeRebalanceStop", [volumeName |-> volumeName, force |-> force],
               volumeRebalanceStopCommand(volumeName, force),
               "_parseVolumeRebalanceRemoveBrickStatus")

volumeRebalanceStatus ==
    /\ pc = "idle"
    /\ \E volumeName \in Volumes :
        MapXmlOn(Replies \cup TreeReplies(RebalanceTrees), "volumeRebalanceStatus", [volumeName |-> volumeName],
               _getGlusterVolCmd \o <<"rebalance", volumeName, "status">>,
               "_parseVolumeRebalanceRemoveBrickStatus")

----------------------------------------------------------------------------
(* Replace brick *)

replaceBrickCommand(volumeName, existingBrick, newBrick, verb) ==
    _getGlusterVolCmd \o <<"replace-brick", volumeName, existingBrick, newBrick, verb>>

ReplaceArgs ==
    { [volumeName |-> v, existingBrick |-> brickName(1), newBrick |-> brickName(2)] :
        v \in Volumes }

volumeReplaceBrickStart ==
    /\ pc = "idle"
    /\ \E a \in ReplaceArgs :
        MapXml("volumeReplaceBrickStart", a,
               replaceBrickCommand(a.volumeName, a.existingBrick, a.newBrick, "start"),
               "volumeReplaceBrickStart")

volumeReplaceBrickAbort ==
    /\ pc = "idle"
    /\ \E a \in ReplaceArgs :
        AckXml("volumeReplaceBrickAbort", a,
               replaceBrickCommand(a.volumeName, a.existingBrick, a.newBrick, "abort"))

volumeReplaceBrickPause ==
    /\ pc = "idle"
    /\ \E a \in ReplaceArgs :
        AckXml("volumeReplaceBrickPause", a,
               replaceBrickCommand(a.volumeName, a.existingBrick, a.newBrick, "pause"))

\* the first character of a fragment
firstCharacter(w) ==
    CASE w = "Number of files migrated" -> "N"
      [] w = "Migration complete" -> "M"
      [] w = "paused" -> "p"
      [] w = "status " -> "s"
      [] w = "Failed" -> "F"
      [] w = "another transaction " -> "a"
      [] w = "Another Transaction " -> "A"
      [] w = "ANOTHER TRANSACTION " -> "A"
      [] w = "volume start: " -> "v"
      [] OTHER -> w

\* out[0] for the str out that utils.execCmd returns: its first character
\* ("IndexError" when out is empty); an XML document starts with "<"
firstItem(out) ==
    IF out.wf THEN "<"
    ELSE IF out.plain = <<>> THEN "IndexError"
    ELSE firstCharacter(out.plain[1])

\* the if/elif chain of volumeReplaceBrickStatus
replaceBrickStatusOf(statLine) ==
    IF contains(<<"PAUSED">>, statLine) THEN "PAUSED"
    ELSE IF endswith(statLine, <<"MIGRATION COMPLETE">>) THEN "COMPLETED"
    ELSE IF startswith(statLine, <<"NUMBER OF FILES MIGRATED">>) THEN "RUNNING"
    ELSE IF endswith(statLine, <<"UNKNOWN">>) THEN "UNKNOWN"
    ELSE "NA"

\* the part of volumeReplaceBrickStatus after the command has run: out is a
\* str, so "\n".join(out) puts a newline between its characters and out[0]
\* is its first character (IndexError on an empty output)
replaceBrickStatusOutcome(out) ==
    IF firstItem(out) = "IndexError"
    THEN Bare("IndexError", "classify")
    ELSE LET statLine == upper(strip(<<firstItem(out)>>))
         IN  Return([status |-> replaceBrickStatusOf(statLine),
                     message |-> [sep |-> "\n", characters |-> chars(out)]])

\* what "gluster volume replace-brick ... status" prints
ReplaceBrickStatusTexts ==
    { <<"Number of files migrated", " = 5", "\n", "Current file= a", "\n">>,
      <<"Migration complete", "\n">>,
      <<"status ", "paused", "\n">>,
      <<"paused", " - ", "Migration complete", "\n">>,
      <<"status ", "unknown", "\n">>,
      <<"p">>,
      <<"Failed", "\n", "paused">>,
      <<" ", "Migration complete">> }

ReplaceBrickStatusReplies ==
    Replies \cup [rc : {0}, out : {PlainOut(t) : t \in ReplaceBrickStatusTexts},
                  err : {<<>>}]

volumeReplaceBrickStatus ==
    /\ pc = "idle"
    /\ \E a \in ReplaceArgs, reply \in ReplaceBrickStatusReplies :
        LET x == _execGluster(replaceBrickCommand(a.volumeName, a.existingBrick,
                                                  a.newBrick, "status"), reply)
        IN  IF x.exc # NoExc
            THEN Finish("volumeReplaceBrickStatus", a, reply, x.exc, <<x.cmd>>, x.stages,
                        x.exc, _peer, _peerUUID)
            ELSE Finish("volumeReplaceBrickStatus", a, reply, x.exc, <<x.cmd>>,
                        Append(x.stages, "classify"),
                        replaceBrickStatusOutcome(reply.out), _peer, _peerUUID)

volumeReplaceBrickCommitCommand(volumeName, existingBrick, newBrick, force) ==
    replaceBrickCommand(volumeName, existingBrick, newBrick, "commit")
        \o (IF force THEN <<"force">> ELSE <<>>)

volumeReplaceBrickCommit ==
    /\ pc = "idle"
    /\ \E a \in ReplaceArgs, force \in BOOLEAN :
        AckXml("volumeReplaceBrickCommit",
               [volumeName |-> a.volumeName, existingBrick |-> a.existingBrick,
                newBrick |-> a.newBrick, force |-> force],
               volumeReplaceBrickCommitCommand(a.volumeName, a.existingBrick,
                                               a.newBrick, force))

----------------------------------------------------------------------------
(* Remove brick *)

removeBrickCommand(volumeName, brickList, replicaCount, verb) ==
    _getGlusterVolCmd \o <<"remove-brick", volumeName>>
        \o (IF replicaCount # 0 THEN <<"replica", str(replicaCount)>> ELSE <<>>)
        \o brickList \o <<verb>>

RemoveArgs ==
    [volumeName : Volumes, brickList : BrickLists, replicaCount : Counts]

volumeRemoveBrickStart ==
    /\ pc = "idle"
    /\ \E a \in RemoveArgs :
        MapXml("volumeRemoveBrickStart", a,
               removeBrickCommand(a.volumeName, a.brickList, a.replicaCount, "start"),
               "volumeRemoveBrickStart")

volumeRemoveBrickStop ==
    /\ pc = "idle"
    /\ \E a \in RemoveArgs :
        MapXmlOn(Replies \cup TreeReplies(RebalanceTrees), "volumeRemoveBrickStop", a,
               removeBrickCommand(a.volumeName, a.brickList, a.replicaCount, "stop"),
               "_parseVolumeRebalanceRemoveBrickStatus")

volumeRemoveBrickStatus ==
    /\ pc = "idle"
    /\ \E a \in RemoveArgs :
        MapXmlOn(Replies \cup TreeReplies(RebalanceTrees), "volumeRemoveBrickStatus", a,
               removeBrickCommand(a.volumeName, a.brickList, a.replicaCount, "status"),
               "_parseVolumeRebalanceRemoveBrickStatus")

volumeRemoveBrickCommit ==
    /\ pc = "idle"
    /\ \E a \in RemoveArgs :
        AckXml("volumeRemoveBrickCommit", a,
               removeBrickCommand(a.volumeName, a.brickList, a.replicaCount, "commit"))

volumeRemoveBrickForce ==
    /\ pc = "idle"
    /\ \E a \in RemoveArgs :
        AckXml("volumeRemoveBrickForce", a,
               removeBrickCommand(a.volumeName, a.brickList, a.replicaCount, "force"))

----------------------------------------------------------------------------
(* Peers *)

peerProbe ==
    /\ pc = "idle"
    /\ \E hostName \in Hosts :
        AckXml("peerProbe", [hostName |-> hostName],
               _getGlusterPeerCmd \o <<"probe", hostName>>)

peerDetachCommand(hostName, force) ==
    _getGlusterPeerCmd \o <<"detach", hostName>> \o (IF force THEN <<"force">> ELSE <<>>)

\* "raise GlusterPeerNotFound(hostName)": no class of that name is defined or
\* imported in cli.py, so evaluating the name raises NameError
GlusterPeerNotFound(hostName) == Bare("NameError", "outcome")

\* the except clause of peerDetach, given what _execGlusterXml raised
peerDetachHandler(exc, hostName) ==
    IF exc.kind = "GlusterCmdFailed" /\ exc.rc = 2
    THEN GlusterPeerNotFound(hostName)
    ELSE exc

peerDetach ==
    /\ pc = "idle"
    /\ \E hostName \in Hosts, force \in BOOLEAN, reply \in Replies :
        LET x == _execGlusterXml(peerDetachCommand(hostName, force), reply)
        IN  Finish("peerDetach", [hostName |-> hostName, force |-> force], reply,
                   x.exc, <<x.cmd>>, x.stages,
                   IF x.exc # NoExc THEN peerDetachHandler(x.exc, hostName)
                   ELSE Return("True"),
                   _peer, _peerUUID)

\* peerStatus: the arguments of _parsePeerStatus are evaluated first, in
\* order: _getLocalPeer(), then _getLocalPeerUUID(), which may run "uuid get"
peerStatus ==
    /\ pc = "idle"
    /\ \E reply \in Replies \cup TreeReplies(PeerStatusTrees) :
        LET x == _execGlusterXml(_getGlusterPeerCmd \o <<"status">>, reply)
        IN  IF x.exc # NoExc
            THEN Finish("peerStatus", NoArgs, reply, x.exc, <<x.cmd>>, x.stages, x.exc,
                        _peer, _peerUUID)
            ELSE \E env \in LocalEnvs, uuidReply \in UuidReplies :
                    LET p == _getLocalPeer(_peer, env)
                        u == _getLocalPeerUUID(_peerUUID, uuidReply)
                    IN  Finish("peerStatus", NoArgs, reply, x.exc, <<x.cmd>> \o u.log,
                               Append(x.stages, "map"),
                               IF u.exc # NoExc
                               THEN [u.exc EXCEPT !.stage = "map"]
                               ELSE IF x.tree.body = "tree"
                               THEN outcomeOfMapper(
                                        _parsePeerStatus(x.tree.elements, p.ret, u.ret,
                                                         "CONNECTED"),
                                        x.cmd, x.tree)
                               ELSE mapOutcome("_parsePeerStatus", x.cmd, x.tree),
                               p.peer, u.uuid)

----------------------------------------------------------------------------
(* Profiling and tasks *)

volumeProfileStart ==
    /\ pc = "idle"
    /\ \E volumeName \in Volumes :
        AckXml("volumeProfileStart", [volumeName |-> volumeName],
               _getGlusterVolCmd \o <<"profile", volumeName, "start">>)

volumeProfileStop ==
    /\ pc = "idle"
    /\ \E volumeName \in Volumes :
        AckXml("volumeProfileStop", [volumeName |-> volumeName],
               _getGlusterVolCmd \o <<"profile", volumeName, "stop">>)

volumeProfileInfoCommand(volumeName, nfs) ==
    _getGlusterVolCmd \o <<"profile", volumeName, "info">>
        \o (IF nfs THEN <<"nfs">> ELSE <<>>)

\* _parseVolumeProfileInfo calls _getLocalPeer() for a brick named "localhost"
volumeProfileInfo ==
    /\ pc = "idle"
    /\ \E volumeName \in Volumes, nfs \in BOOLEAN, reply \in Replies :
        LET args == [volumeName |-> volumeName, nfs |-> nfs]
            x == _execGlusterXml(volumeProfileInfoCommand(volumeName, nfs), reply)
        IN  IF x.exc # NoExc
            THEN Finish("volumeProfileInfo", args, reply, x.exc, <<x.cmd>>, x.stages, x.exc,
                        _peer, _peerUUID)
            ELSE IF x.tree.body = "local"
            THEN \E env \in LocalEnvs :
                    Finish("volumeProfileInfo", args, reply, x.exc, <<x.cmd>>,
                           Append(x.stages, "map"),
                           mapOutcome("_parseVolumeProfileInfo", x.cmd, x.tree),
                           _getLocalPeer(_peer, env).peer, _peerUUID)
            ELSE Finish("volumeProfileInfo", args, reply, x.exc, <<x.cmd>>,
                        Append(x.stages, "map"),
                        mapOutcome("_parseVolumeProfileInfo", x.cmd, x.tree),
                        _peer, _peerUUID)

volumeTasks ==
    /\ pc = "idle"
    /\ \E volumeName \in Volumes \cup {"all"} :
        MapXmlOn(Replies \cup TreeReplies(VolumeTasksTrees), "volumeTasks", [volumeName |-> volumeName],
               _getGlusterVolCmd \o <<"status", volumeName, "tasks">>,
               "_parseVolumeTasks")

----------------------------------------------------------------------------
(* Geo-replication *)

\* "%s::%s" % (remoteHost, remoteVolumeName)
slaveUrl(remoteHost, remoteVolumeName) == remoteHost \o "::" \o remoteVolumeName

GeoRepArgs ==
    [volumeName : Volumes, remoteHost : Hosts, remoteVolumeName : {"rvol"},
     force : BOOLEAN]

geoRepSessionCommand(a, verb) ==
    _getGlusterVolGeoRepCmd
        \o <<a.volumeName, slaveUrl(a.remoteHost, a.remoteVolumeName), verb>>
        \o (IF a.force THEN <<"force">> ELSE <<>>)

volumeGeoRepSessionStart ==
    /\ pc = "idle"
    /\ \E a \in GeoRepArgs :
        AckXml("volumeGeoRepSessionStart", a, geoRepSessionCommand(a, "start"))

volumeGeoRepSessionStop ==
    /\ pc = "idle"
    /\ \E a \in GeoRepArgs :
        AckXml("volumeGeoRepSessionStop", a, geoRepSessionCommand(a, "stop"))

volumeGeoRepSessionPause ==
    /\ pc = "idle"
    /\ \E a \in GeoRepArgs :
        AckXml("volumeGeoRepSessionPause", a, geoRepSessionCommand(a, "pause"))

volumeGeoRepSessionResume ==
    /\ pc = "idle"
    /\ \E a \in GeoRepArgs :
        AckXml("volumeGeoRepSessionResume", a, geoRepSessionCommand(a, "resume"))

volumeGeoRepStatusCommand(volumeName, remoteHost, remoteVolumeName, detail) ==
    _getGlusterVolGeoRepCmd
        \o (IF volumeName # "" THEN <<volumeName>> ELSE <<>>)
        \o (IF remoteHost # "" /\ remoteVolumeName # ""
            THEN <<slaveUrl(remoteHost, remoteVolumeName)>> ELSE <<>>)
        \o <<"status">>
        \o (IF detail THEN <<"detail">> ELSE <<>>)

volumeGeoRepStatus ==
    /\ pc = "idle"
    /\ \E volumeName \in Volumes \cup {""}, remoteHost \in Hosts \cup {""},
       remoteVolumeName \in {"", "rvol"}, detail \in BOOLEAN :
        MapXml("volumeGeoRepStatus",
               [volumeName |-> volumeName, remoteHost |-> remoteHost,
                remoteVolumeName |-> remoteVolumeName, detail |-> detail],
               volumeGeoRepStatusCommand(volumeName, remoteHost, remoteVolumeName,
                                         detail),
               "_parseGeoRepStatus")

volumeGeoRepConfigCommand(volumeName, remoteHost, remoteVolumeName, optionName, optionValue) ==
    _getGlusterVolGeoRepCmd
        \o <<volumeName, slaveUrl(remoteHost, remoteVolumeName), "config">>
        \o (IF optionName # "" /\ optionValue # "" THEN <<optionName, optionValue>>
            ELSE IF optionName # "" THEN <<"!" \o optionName>>
            ELSE <<>>)

volumeGeoRepConfig ==
    /\ pc = "idle"
    /\ \E volumeName \in Volumes, remoteHost \in Hosts, optionName \in {"", "timeout"},
       optionValue \in {"", "60"} :
        LET args == [volumeName |-> volumeName, remoteHost |-> remoteHost,
                     remoteVolumeName |-> "rvol", optionName |-> optionName,
                     optionValue |-> optionValue]
            command == volumeGeoRepConfigCommand(volumeName, remoteHost, "rvol",
                                                 optionName, optionValue)
        IN  IF optionName # ""
            THEN AckXml("volumeGeoRepConfig", args, command)
            ELSE MapXml("volumeGeoRepConfig", args, command, "_parseVolumeGeoRepConfig")

----------------------------------------------------------------------------
(* Snapshots *)

snapshotCreateCommand(volumeName, snapName, snapDescription, force) ==
    _getGlusterSnapshotCmd \o <<"create", snapName, volumeName>>
        \o (IF snapDescription # "" THEN <<"description", snapDescription>> ELSE <<>>)
        \o (IF force THEN <<"force">> ELSE <<>>)

snapshotCreate ==
    /\ pc = "idle"
    /\ \E volumeName \in Volumes, snapName \in Snapshots,
       snapDescription \in {"", "nightly"}, force \in BOOLEAN :
        MapXml("snapshotCreate",
               [volumeName |-> volumeName, snapName |-> snapName,
                snapDescription |-> snapDescription, force |-> force],
               snapshotCreateCommand(volumeName, snapName, snapDescription, force),
               "snapshotCreate")

snapshotDeleteCommand(volumeName, snapName) ==
    _getGlusterSnapshotCmd \o <<"delete">>
        \o (IF snapName # "" THEN <<snapName>>
            ELSE IF volumeName # "" THEN <<"volume", volumeName>>
            ELSE <<>>)

snapshotDelete ==
    /\ pc = "idle"
    /\ \E volumeName \in Volumes \cup {""}, snapName \in Snapshots \cup {""} :
        AckPlain("snapshotDelete", [volumeName |-> volumeName, snapName |-> snapName],
                 snapshotDeleteCommand(volumeName, snapName))

snapshotActivateCommand(snapName, force) ==
    _getGlusterSnapshotCmd \o <<"activate", snapName>>
        \o (IF force THEN <<"force">> ELSE <<>>)

snapshotActivate ==
    /\ pc = "idle"
    /\ \E snapName \in Snapshots, force \in BOOLEAN :
        AckXml("snapshotActivate", [snapName |-> snapName, force |-> force],
               snapshotActivateCommand(snapName, force))

snapshotDeactivate ==
    /\ pc = "idle"
    /\ \E snapName \in Snapshots :
        AckXml("snapshotDeactivate", [snapName |-> snapName],
               _getGlusterSnapshotCmd \o <<"deactivate", snapName>>)

snapshotRestore ==
    /\ pc = "idle"
    /\ \E snapName \in Snapshots :
        MapXml("snapshotRestore", [snapName |-> snapName],
               _getGlusterSnapshotCmd \o <<"restore", snapName>>,
               "_parseRestoredSnapshot")

----------------------------------------------------------------------------
(* The process *)

\* the threads that call facade functions at the same time
Threads == {"t1", "t2"}

NoCall == [op |-> "none", args |-> NoArgs, reply |-> NoReply, peer0 |-> "", uuid0 |-> ""]

Init ==
    /\ _peer = ""
    /\ _peerUUID = ""
    /\ pc = "idle"
    /\ call = NoCall
    /\ execResult = NoExc
    /\ execLog = <<>>
    /\ stages = <<>>
    /\ result = NoExc
    /\ substitutions = {}
    /\ tpc = [t \in Threads |-> "idle"]
    /\ tlocal = [t \in Threads |-> [value |-> "", calls |-> 0]]
    /\ computed = [peer |-> 0, uuid |-> 0]
    /\ returned = [peer |-> {}, uuid |-> {}]

\* the caller takes the value or the exception of the call it made; the
\* next call can start
callerContinues ==
    /\ pc = "returned"
    /\ pc' = "idle"
    /\ call' = NoCall
    /\ execResult' = NoExc
    /\ execLog' = <<>>
    /\ stages' = <<>>
    /\ result' = NoExc
    /\ UNCHANGED <<_peer, _peerUUID, substitutions, threadVars>>

Next ==
    \/ volumeStatus \/ volumeInfo \/ volumeCreate \/ volumeStart \/ volumeStop
    \/ volumeDelete \/ volumeSet \/ volumeSetHelpXml \/ volumeReset \/ volumeAddBrick
    \/ volumeRebalanceStart \/ volumeRebalanceStop \/ volumeRebalanceStatus
    \/ volumeReplaceBrickStart \/ volumeReplaceBrickAbort \/ volumeReplaceBrickPause
    \/ volumeReplaceBrickStatus \/ volumeReplaceBrickCommit
    \/ volumeRemoveBrickStart \/ volumeRemoveBrickStop \/ volumeRemoveBrickStatus
    \/ volumeRemoveBrickCommit \/ volumeRemoveBrickForce
    \/ peerProbe \/ peerDetach \/ peerStatus
    \/ volumeProfileStart \/ volumeProfileStop \/ volumeProfileInfo \/ volumeTasks
    \/ volumeGeoRepSessionStart \/ volumeGeoRepSessionStop \/ volumeGeoRepStatus
    \/ volumeGeoRepSessionPause \/ volumeGeoRepSessionResume \/ volumeGeoRepConfig
    \/ snapshotCreate \/ snapshotDelete \/ snapshotActivate \/ snapshotDeactivate
    \/ snapshotRestore
    \/ callerContinues

Spec == Init /\ [][Next]_vars

----------------------------------------------------------------------------
(* Concurrent callers: the identity lookups that volumeStatus,               *)
(* volumeProfileInfo and peerStatus make, one statement at a time. cli.py   *)
(* holds no lock; threads interleave between statements.                    *)

\* thread t is done with its lookup, which returned value
lookupReturns(t, which, value) ==
    /\ tpc' = [tpc EXCEPT ![t] = "idle"]
    /\ returned' = [returned EXCEPT ![which] = @ \cup {value}]

\* "if _peer: return _peer" (lines 43-44)
getLocalPeerEnter(t) ==
    /\ tpc[t] = "idle" /\ tlocal[t].calls < MaxCalls
    /\ tlocal' = [tlocal EXCEPT ![t].calls = @ + 1]
    /\ IF _peer # ""
       THEN lookupReturns(t, "peer", _peer)
       ELSE tpc' = [tpc EXCEPT ![t] = "resolve"] /\ UNCHANGED returned
    /\ UNCHANGED <<_peer, _peerUUID, computed, callVars>>

\* lines 46-62 up to the assignment: the address is resolved; without an
\* address that is not a loopback one the fqdn is returned
getLocalPeerResolve(t) ==
    /\ tpc[t] = "resolve"
    /\ computed' = [computed EXCEPT !.peer = @ + 1]
    /\ \E env \in LocalEnvs :
          LET r == _getLocalPeer("", env)
          IN  IF r.peer # ""
              THEN /\ tlocal' = [tlocal EXCEPT ![t].value = r.ret]
                   /\ tpc' = [tpc EXCEPT ![t] = "store"]
                   /\ UNCHANGED returned
              ELSE /\ lookupReturns(t, "peer", r.ret)
                   /\ UNCHANGED tlocal
    /\ UNCHANGED <<_peer, _peerUUID, callVars>>

\* "_peer = ip; return ip" (lines 49-50, 56-57)
getLocalPeerStore(t) ==
    /\ tpc[t] = "store"
    /\ _peer' = tlocal[t].value
    /\ lookupReturns(t, "peer", tlocal[t].value)
    /\ UNCHANGED <<_peerUUID, tlocal, computed, callVars>>

\* "if _peerUUID: return _peerUUID" (lines 171-172)
getLocalPeerUUIDEnter(t) ==
    /\ tpc[t] = "idle" /\ tlocal[t].calls < MaxCalls
    /\ tlocal' = [tlocal EXCEPT ![t].calls = @ + 1]
    /\ IF _peerUUID # ""
       THEN lookupReturns(t, "uuid", _peerUUID)
       ELSE tpc' = [tpc EXCEPT ![t] = "exec"] /\ UNCHANGED returned
    /\ UNCHANGED <<_peer, _peerUUID, computed, callVars>>

\* lines 174-177: "uuid get" is run; GlusterBusy ends the lookup
getLocalPeerUUIDExec(t) ==
    /\ tpc[t] = "exec"
    /\ computed' = [computed EXCEPT !.uuid = @ + 1]
    /\ \E reply \in UuidReplies :
          LET r == _getLocalPeerUUID("", reply)
          IN  IF r.exc # NoExc
              THEN /\ tpc' = [tpc EXCEPT ![t] = "idle"]
                   /\ UNCHANGED tlocal
              ELSE /\ tlocal' = [tlocal EXCEPT ![t].value = r.uuid]
                   /\ tpc' = [tpc EXCEPT ![t] = "storeUUID"]
    /\ UNCHANGED <<_peer, _peerUUID, returned, callVars>>

\* "if o.startswith('UUID: '): _peerUUID = o[6:]" and "return _peerUUID",
\* which reads the global again (lines 178-181)
getLocalPeerUUIDStore(t) ==
    /\ tpc[t] = "storeUUID"
    /\ _peerUUID' = IF tlocal[t].value # "" THEN tlocal[t].value ELSE _peerUUID
    /\ lookupReturns(t, "uuid", _peerUUID')
    /\ UNCHANGED <<_peer, tlocal, computed, callVars>>

NextConcurrent ==
    \E t \in Threads :
        \/ getLocalPeerEnter(t) \/ getLocalPeerResolve(t) \/ getLocalPeerStore(t)
        \/ getLocalPeerUUIDEnter(t) \/ getLocalPeerUUIDExec(t) \/ getLocalPeerUUIDStore(t)

SpecConcurrent == Init /\ [][NextConcurrent]_vars

----------------------------------------------------------------------------
(* Properties *)

\* a call has returned or raised
Returned == pc = "returned"

\* the call's own command was run with the structured-output flag
RanXml == execLog # <<>> /\ execLog[1][Len(execLog[1])] = "--xml"

\* stdout and stderr, concatenated, hold the busy marker in some letter case
HasMarker(reply) == contains(_TRANS_IN_PROGRESS, lower(chars(reply.out) \o reply.err))

\* stdout is an envelope with all three fields, both codes numeric
Decodable(out) ==
    /\ out.wf
    /\ isNumeric(out.opRet)
    /\ out.opErrstr.present
    /\ isNumeric(out.opErrno)

StageOrder == <<"busy", "decode", "outcome", "map">>

IsPrefix(s, t) == Len(s) <= Len(t) /\ SubSeq(t, 1, Len(s)) = s

\* the first stage the reply must fail at ("map": none of the first three)
FirstFailing(reply) ==
    IF HasMarker(reply) THEN "busy"
    ELSE IF ~Decodable(reply.out) THEN "decode"
    ELSE IF int(reply.out.opRet) # 0 THEN "outcome"
    ELSE "map"

\* C1: in every call that runs its command with --xml, the stages gone through
\* are a prefix of busy check, envelope decode, outcome-code check, entity
\* mapping; the call stops at the first stage its reply fails, the failure is
\* the one raised in that stage, and it is never of a kind that belongs to a
\* later stage (a reply that is busy and malformed is Busy, a malformed one is
\* never CommandFailed, a failed outcome is never a mapping DecodeError).
C1_StageOrder ==
    (Returned /\ RanXml) =>
        LET first == FirstFailing(call.reply)
            last == stages[Len(stages)]
        IN  /\ stages # <<>>
            /\ IsPrefix(stages, StageOrder)
            /\ result.kind # "return" => result.stage = last
            /\ first # "map" =>
                 /\ last = first
                 /\ result.kind # "return"
                 /\ execResult = result \/ call.op = "peerDetach"
            /\ first = "map" => Len(stages) >= 3 /\ execResult = NoExc
            /\ first = "busy" => result.kind = "GlusterBusy"
            /\ first = "decode" => result.kind \notin {"GlusterBusy", "GlusterCmdFailed"}
            /\ first = "outcome" => result.kind \notin {"GlusterBusy", "GlusterXMLError"}

\* C1 witness: a reply that holds the busy marker and is no envelope at all
\* ended as Busy after the busy check alone
C1_Witness ==
    /\ Returned /\ RanXml
    /\ HasMarker(call.reply) /\ ~call.reply.out.wf
    /\ stages = <<"busy">>
    /\ result.kind = "GlusterBusy"

\* C2: whatever the function and the exit code, a reply whose stdout + stderr
\* holds the marker in any letter case ends as GlusterBusy carrying the exit
\* code and both streams, never as a return value.
C2_BusyAnyExitCode ==
    (Returned /\ HasMarker(call.reply)) =>
        /\ result.kind = "GlusterBusy"
        /\ {"rc", "out", "err"} \subseteq result.carries
        /\ result.rc = call.reply.rc
        /\ result.out = call.reply.out
        /\ result.err = call.reply.err

\* C2 witness: exit code 0, a well-formed envelope with opRet 0 whose text
\* holds the marker in mixed case, and the call raised GlusterBusy
C2_Witness ==
    /\ Returned
    /\ call.reply.rc = 0
    /\ Decodable(call.reply.out) /\ call.reply.out.opRet = "0"
    /\ call.reply.out.opErrstr.text = <<"Another Transaction ", "Is In Progress">>
    /\ result.kind = "GlusterBusy"

\* C3: when the busy check has passed and the envelope decodes, _execGlusterXml
\* raises GlusterCmdFailed exactly when opRet is not 0, with rc = opErrno if
\* that is not 0 and opRet otherwise and with the opErrstr text as its message;
\* every function but peerDetach lets it through unchanged, and with opRet 0
\* no call ends as GlusterCmdFailed, whatever opErrno is.
C3_CommandFailedCode ==
    (Returned /\ RanXml /\ ~HasMarker(call.reply) /\ Decodable(call.reply.out)) =>
        LET out == call.reply.out
            rv == int(out.opRet)
            errNo == int(out.opErrno)
        IN  /\ rv # 0 =>
                 /\ execResult.kind = "GlusterCmdFailed"
                 /\ execResult.rc = (IF errNo # 0 THEN errNo ELSE rv)
                 /\ execResult.err = out.opErrstr.text
                 /\ call.op # "peerDetach" => result = execResult
            /\ rv = 0 =>
                 /\ execResult.kind # "GlusterCmdFailed"
                 /\ result.kind # "GlusterCmdFailed"

\* C3 witness: opRet -1 with opErrno 3 raised GlusterCmdFailed with rc 3
C3_Witness ==
    /\ Returned /\ RanXml
    /\ call.reply.out.opRet = "-1" /\ call.reply.out.opErrno = "3"
    /\ result.kind = "GlusterCmdFailed"
    /\ result.rc = 3
    /\ result.err = <<"volume does not exist">>

\* C4: a call whose command exited with a non-zero code never returns a
\* value: it ends as GlusterBusy, GlusterXMLError or GlusterCmdFailed, also in
\* the functions that do not decode an envelope.
C4_NoSuccessOnFailedCommand ==
    (Returned /\ call.reply.rc # 0) =>
        result.kind \in {"GlusterBusy", "GlusterXMLError", "GlusterCmdFailed"}

\* C5: peerDetach turns a GlusterCmdFailed with rc 2 into GlusterPeerNotFound
\* and lets every other exception of _execGlusterXml through unchanged.
C5_PeerDetachReclassifies ==
    (Returned /\ call.op = "peerDetach" /\ execResult # NoExc) =>
        IF execResult.kind = "GlusterCmdFailed" /\ execResult.rc = 2
        THEN result.kind = "GlusterPeerNotFound"
        ELSE result = execResult

\* C6 as claimed: every call hands exactly one command to utils.execCmd.
C6_ExactlyOneInvocation == Returned => Len(execLog) = 1

uuidGetCommand == <<glusterCmd, "system::", "uuid", "get">>

\* C6 as amended: every call runs its own command once and never again; the
\* only other command is peerStatus's "gluster system:: uuid get", run once,
\* after the peer-status envelope came back with opRet 0, exactly when
\* _peerUUID was still empty at the time of the call.
C6_OneInvocationPlusUuidGet ==
    Returned =>
        /\ Len(execLog) \in {1, 2}
        /\ execLog[1] # uuidGetCommand
        /\ Len(execLog) = 2 <=>
             /\ call.op = "peerStatus"
             /\ call.uuid0 = ""
             /\ execResult = NoExc
        /\ Len(execLog) = 2 => execLog[2] = uuidGetCommand

\* C6 witness: a peerStatus call made with _peerUUID still empty ran its own
\* command and then the uuid lookup, memoized the answer and returned
C6_Witness ==
    /\ Returned
    /\ call.op = "peerStatus"
    /\ call.uuid0 = ""
    /\ _peerUUID # ""
    /\ execLog = <<_getGlusterPeerCmd \o <<"status", "--xml">>, uuidGetCommand>>
    /\ result.kind = "return"

\* the functions the claim allows to run without --xml
PlainOperations == {"volumeSetHelpXml", "snapshotDelete", "volumeReplaceBrickStatus"}

\* C7: the command of every function ends with --xml, except in exactly the
\* three functions of PlainOperations.
C7_XmlFlagExceptThree ==
    Returned => (RanXml <=> call.op \notin PlainOperations)

\* C8: every GlusterBusy, GlusterXMLError, GlusterCmdFailed and
\* GlusterPeerNotFound carries the command that was run and the output
\* captured for it.
C8_FailuresCarryCommandAndOutput ==
    (Returned /\ result.kind \in {"GlusterBusy", "GlusterXMLError", "GlusterCmdFailed",
                                  "GlusterPeerNotFound"}) =>
        /\ "cmd" \in result.carries
        /\ result.cmd \in {execLog[i] : i \in 1..Len(execLog)}
        /\ \/ "out" \in result.carries /\ result.out = call.reply.out
           \/ "xml" \in result.carries /\ result.xml.doc = call.reply.out

\* the functions that parse what the daemon printed
ParsesOutput == RanXml \/ call.op = "volumeSetHelpXml"

\* the output cannot be parsed or lacks what the function's decoder needs
Undecodable(op, out) ==
    IF op = "volumeSetHelpXml" THEN ~out.wf ELSE ~Decodable(out)

\* C9: in every function that parses the output, an output that is not
\* parseable, lacks opRet, opErrstr or opErrno, or has a non-numeric code ends
\* as GlusterXMLError carrying the command and the captured output, and as
\* nothing else.
C9_DecodeErrorOnly ==
    (Returned /\ ParsesOutput /\ ~HasMarker(call.reply)
        /\ Undecodable(call.op, call.reply.out)) =>
        /\ result.kind = "GlusterXMLError"
        /\ result.cmd = execLog[1]
        /\ result.xml = raw(call.reply.out)

\* the argument vector the function built, before _execGlusterXml extended it
BuiltCommand ==
    IF RanXml THEN SubSeq(execLog[1], 1, Len(execLog[1]) - 1) ELSE execLog[1]

\* the first position of tok in cmd, 0 when it is not there
Pos(tok, cmd) ==
    IF \E i \in 1..Len(cmd) : cmd[i] = tok
    THEN CHOOSE i \in 1..Len(cmd) : cmd[i] = tok /\ \A j \in 1..(i - 1) : cmd[j] # tok
    ELSE 0

\* both there => in this order
Before(x, y, cmd) ==
    (Pos(x, cmd) # 0 /\ Pos(y, cmd) # 0) => Pos(x, cmd) < Pos(y, cmd)

\* the keyword is there, followed by its value, exactly when it is requested
Modifier(requested, keyword, value, cmd) ==
    /\ requested <=> Pos(keyword, cmd) # 0
    /\ requested => /\ Pos(keyword, cmd) < Len(cmd)
                    /\ cmd[Pos(keyword, cmd) + 1] = value

Flag(b) == IF b THEN 1 ELSE 0

\* C10: in every command built, the stripe count comes before the replica
\* count, that before the transport list, that before the bricks; "force",
\* when requested, is the last argument built; a modifier that is not
\* requested adds nothing.
C10_ModifierOrder ==
    Returned =>
        LET a == call.args
            cmd == BuiltCommand
            Has(f) == f \in DOMAIN a
            brick1 == IF Has("brickList") THEN a.brickList[1] ELSE "<no brick>"
        IN  /\ Has("stripeCount") =>
                 Modifier(a.stripeCount # 0, "stripe", str(a.stripeCount), cmd)
            /\ Has("replicaCount") =>
                 Modifier(a.replicaCount # 0, "replica", str(a.replicaCount), cmd)
            /\ Has("transportList") =>
                 Modifier(a.transportList # <<>>, "transport",
                          join(",", a.transportList), cmd)
            /\ Has("brickList") =>
                 /\ Pos(brick1, cmd) # 0
                 /\ SubSeq(cmd, Pos(brick1, cmd),
                           Pos(brick1, cmd) + Len(a.brickList) - 1) = a.brickList
            /\ Before("stripe", "replica", cmd)
            /\ Before("replica", "transport", cmd)
            /\ Before("stripe", "transport", cmd)
            /\ Before("stripe", brick1, cmd)
            /\ Before("replica", brick1, cmd)
            /\ Before("transport", brick1, cmd)
            /\ Has("force") =>
                 /\ a.force => cmd[Len(cmd)] = "force"
                 /\ ~a.force => Pos("force", cmd) = 0
            /\ call.op = "volumeCreate" =>
                 Len(cmd) = 5 + 2 * Flag(a.stripeCount # 0) + 2 * Flag(a.replicaCount # 0)
                              + 2 * Flag(a.transportList # <<>>) + Len(a.brickList)
                              + Flag(a.force)
            /\ call.op = "volumeAddBrick" =>
                 Len(cmd) = 5 + 2 * Flag(a.stripeCount # 0) + 2 * Flag(a.replicaCount # 0)
                              + Len(a.brickList) + Flag(a.force)
            /\ call.op = "volumeRebalanceStart" =>
                 /\ Len(cmd) = 6 + Flag(a.rebalanceType # "") + Flag(a.force)
                 /\ cmd[Len(cmd) - Flag(a.force)] = "start"

\* C10 witness: volumeCreate with every modifier requested
C10_Witness ==
    /\ Returned
    /\ call.op = "volumeCreate"
    /\ call.args.stripeCount # 0 /\ call.args.replicaCount # 0
    /\ call.args.transportList = <<"tcp", "rdma">>
    /\ Len(call.args.brickList) = 2
    /\ call.args.force
    /\ BuiltCommand = <<glusterCmd, "--mode=script", "volume", "create", "vol1",
                        "stripe", "1", "replica", "1", "transport", "tcp,rdma",
                        "host1:/b", "host2:/b", "force">>


----------------------------------------------------------------------------
(* Replace-brick status *)

RECURSIVE firstLine(_)
\* the text up to the first newline
firstLine(text) ==
    IF text = <<>> \/ Head(text) = "\n" THEN <<>>
    ELSE <<Head(text)>> \o firstLine(Tail(text))

\* the classification the rules give for the first line of a status output
ClaimedBrickStatus(text) ==
    LET line == upper(strip(firstLine(text)))
    IN  IF contains(<<"PAUSED">>, line) THEN "PAUSED"
        ELSE IF endswith(line, <<"MIGRATION COMPLETE">>) THEN "COMPLETED"
        ELSE IF startswith(line, <<"NUMBER OF FILES MIGRATED">>) THEN "RUNNING"
        ELSE IF endswith(line, <<"UNKNOWN">>) THEN "UNKNOWN"
        ELSE "NA"

\* C11: replace-brick status returns the classification of the first output
\* line, upper-cased, by the first matching rule: contains PAUSED, ends with
\* MIGRATION COMPLETE, starts with NUMBER OF FILES MIGRATED, ends with
\* UNKNOWN, otherwise NA.
C11_ReplaceBrickStatusClassification ==
    (Returned /\ call.op = "volumeReplaceBrickStatus" /\ result.kind = "return"
        /\ ~call.reply.out.wf) =>
        result.value.status = ClaimedBrickStatus(call.reply.out.plain)

----------------------------------------------------------------------------
(* Volume info *)

\* volume info has returned the volumes of a response tree
VolumeInfoReturned ==
    Returned /\ call.op = "volumeInfo" /\ result.kind = "return"
        /\ call.reply.out.body = "tree"

\* C12 as claimed: for every volume returned by volume info, the length of
\* bricks equals the volume's brickCount.
C12_BricksLengthIsBrickCount ==
    VolumeInfoReturned =>
        \A name \in DOMAIN result.value :
            str(Len(result.value[name].bricks)) = result.value[name].brickCount

\* the last <volume> element of the response with this name
LastNamed(elements, name) ==
    elements[CHOOSE i \in 1..Len(elements) :
                /\ elements[i].name = name
                /\ \A j \in (i + 1)..Len(elements) : elements[j].name # name]

\* C12 as amended: every returned volume has one bricks entry per brick node
\* of its <volume> element, in response order, and its brickCount is the text
\* of that element's brickCount field, so the two agree exactly when the
\* response's count agrees with its brick nodes.
C12_BricksFollowBrickNodes ==
    VolumeInfoReturned =>
        \A name \in DOMAIN result.value :
            LET el == LastNamed(call.reply.out.elements, name)
                v == result.value[name]
            IN  /\ Len(v.bricks) = Len(el.bricks)
                /\ \A i \in 1..Len(el.bricks) : v.bricks[i] = el.bricks[i].text
                /\ v.brickCount = el.brickCount
                /\ (str(Len(v.bricks)) = v.brickCount)
                      <=> (str(Len(el.bricks)) = el.brickCount)

\* C12 witness: a volume came back with two bricks and brickCount "2"
C12_Witness ==
    /\ VolumeInfoReturned
    /\ \E name \in DOMAIN result.value :
          /\ Len(result.value[name].bricks) = 2
          /\ result.value[name].brickCount = "2"

----------------------------------------------------------------------------
(* Volume status *)

\* the default volume-status mapper has returned the entity of a response tree
VolumeStatusReturned ==
    Returned /\ call.op = "volumeStatus" /\ result.kind = "return"
        /\ call.args.option = "" /\ call.reply.out.body = "tree"

StatusLists == {"bricks", "nfs", "shd"}

\* the list a node belongs to, by its hostname
ListOf(node) ==
    IF node.hostname = "NFS Server" THEN "nfs"
    ELSE IF node.hostname = "Self-heal Daemon" THEN "shd"
    ELSE "bricks"

RECURSIVE NodesOf(_, _)
\* the nodes of the response that belong to the list, in response order
NodesOf(list, elements) ==
    IF elements = <<>> THEN <<>>
    ELSE (IF ListOf(Head(elements)) = list THEN <<Head(elements)>> ELSE <<>>)
            \o NodesOf(list, Tail(elements))

\* the entry names this host in place of the node's path
NamesHost(list, node, entry, host) ==
    IF list = "bricks" THEN entry.brick = node.hostname \o ":" \o host
    ELSE entry.hostname = host

\* C13: in a volume-status result a node with path "localhost" carries the
\* resolved local address instead, and every decode in the process
\* substitutes the same value, whatever calls ran in between.
C13_LocalhostSubstitutionStable ==
    /\ Cardinality(substitutions) <= 1
    /\ VolumeStatusReturned =>
          \A list \in StatusLists :
              LET nodes == NodesOf(list, call.reply.out.elements)
              IN  \A i \in 1..Len(nodes) :
                      nodes[i].path = "localhost" =>
                          /\ ~NamesHost(list, nodes[i], result.value[list][i], "localhost")
                          /\ \E host \in substitutions :
                                NamesHost(list, nodes[i], result.value[list][i], host)

\* C19: the default volume-status mapper puts every node in exactly one of
\* nfs ("NFS Server"), shd ("Self-heal Daemon") and bricks (any other
\* hostname), in response order, the lengths adding up to the number of
\* nodes, with status ONLINE exactly for status code "1".
C19_ThreeBuckets ==
    VolumeStatusReturned =>
        LET elements == call.reply.out.elements
            v == result.value
        IN  /\ Len(v.bricks) + Len(v.nfs) + Len(v.shd) = Len(elements)
            /\ \A list \in StatusLists :
                  LET nodes == NodesOf(list, elements)
                  IN  /\ Len(v[list]) = Len(nodes)
                      /\ \A i \in 1..Len(nodes) :
                            /\ v[list][i].pid = nodes[i].pid
                            /\ v[list][i].hostuuid = nodes[i].peerid
                            /\ v[list][i].status \in {"ONLINE", "OFFLINE"}
                            /\ v[list][i].status = "ONLINE" <=> nodes[i].status = "1"

\* C19 witness: a response with an NFS node and a brick node, one of them
\* with status code "1" and the other not, came back in two lists
C19_Witness ==
    /\ VolumeStatusReturned
    /\ Len(result.value.nfs) = 1 /\ Len(result.value.bricks) = 1
    /\ result.value.nfs[1].status # result.value.bricks[1].status

----------------------------------------------------------------------------
(* Peer status *)

\* peer status has returned the host list of a response tree
PeerStatusReturned ==
    Returned /\ call.op = "peerStatus" /\ result.kind = "return"
        /\ call.reply.out.body = "tree"

\* the names the host's resolver and interfaces can give for the local peer
LocalNames ==
    UNION { {env.fqdn, env.ip} \cup { env.devs[i] : i \in 1..Len(env.devs) } :
              env \in LocalEnvs }

\* C14: a successful peer-status result starts with the local peer, made of
\* the local address and the local unique id with status CONNECTED, and goes
\* on with one entry per peer of the response, in response order.
C14_LocalPeerFirst ==
    PeerStatusReturned =>
        LET peers == call.reply.out.elements
            hosts == result.value
        IN  /\ Len(hosts) = 1 + Len(peers)
            /\ hosts[1].status = "CONNECTED"
            /\ hosts[1].hostname \in LocalNames
            /\ ~isLoopback(hosts[1].hostname)
            /\ call.peer0 # "" => hosts[1].hostname = call.peer0
            /\ _peer # "" => hosts[1].hostname = _peer
            /\ hosts[1].uuid = _peerUUID
            /\ call.uuid0 # "" => hosts[1].uuid = call.uuid0
            /\ \A i \in 1..Len(peers) :
                  /\ hosts[i + 1].hostname = peers[i].hostname
                  /\ hosts[i + 1].uuid = peers[i].uuid

\* C14 witness: a response with two peers came back as three hosts, the
\* first one with the memoized local address and unique id
C14_Witness ==
    /\ PeerStatusReturned
    /\ Len(result.value) = 3
    /\ result.value[1] = [hostname |-> _peer, uuid |-> _peerUUID, status |-> "CONNECTED"]
    /\ _peer # "" /\ _peerUUID # ""
    /\ result.value[2].status = "DISCONNECTED"

----------------------------------------------------------------------------
(* Memoized identity under concurrent callers *)

\* C15: in any interleaving of concurrent calls the local address is
\* resolved at most once and "uuid get" is run at most once, and the value a
\* lookup has returned never changes.
C15_IdentityComputedOnce ==
    /\ computed.peer <= 1
    /\ computed.uuid <= 1
    /\ Cardinality(returned.peer) <= 1
    /\ Cardinality(returned.uuid) <= 1

----------------------------------------------------------------------------
(* Mappers on responses that lack a node *)

\* the functions that return a rebalance or remove-brick status
RebalanceOperations ==
    {"volumeRebalanceStop", "volumeRebalanceStatus", "volumeRemoveBrickStop",
     "volumeRemoveBrickStatus"}

\* the functions whose mapper reads the top of the tree through findall()
\* only, so that a response without those nodes maps to an empty entity
FindallOperations == {"volumeInfo", "peerStatus", "volumeTasks", "volumeGeoRepStatus"}

\* a field of a record is the ABSENT marker
Lacks(el, tags) == \E tag \in tags : el[tag] = ABSENT

\* the response tree of the call lacks a node or a field its mapper reads
\* (the name and hostUuid of a volume-info brick are the documented tolerance)
LacksExpectedNode ==
    LET out == call.reply.out
    IN  \/ out.body = "noChild"
        \/ out.body = "noNode" /\ call.op \notin FindallOperations
        \/ /\ out.body = "tree" /\ call.op = "volumeStatus"
           /\ \E i \in 1..Len(out.elements) :
                 Lacks(out.elements[i],
                       {"hostname", "path", "peerid", "status", "port", "pid"})
        \/ /\ out.body = "tree" /\ call.op = "peerStatus"
           /\ \E i \in 1..Len(out.elements) :
                 Lacks(out.elements[i], {"hostname", "uuid", "state"})
        \/ /\ out.body = "tree" /\ call.op = "volumeInfo"
           /\ \E i \in 1..Len(out.elements) :
                 \/ Lacks(out.elements[i], {"name", "id", "brickCount", "transport"})
                 \/ ~out.elements[i].typeStr.present
                 \/ \E j \in 1..Len(out.elements[i].options) :
                       Lacks(out.elements[i].options[j], {"name", "value"})
        \/ /\ out.body = "tree" /\ call.op \in RebalanceOperations
           /\ \/ out.elements = <<>>
              \/ ~out.elements[1].aggregate.statusStr.present
              \/ \E i \in 1..Len(out.elements[1].nodes) :
                    ~out.elements[1].nodes[i].statusStr.present
        \/ /\ out.body = "tree" /\ call.op = "volumeTasks"
           /\ \E i \in 1..Len(out.elements) :
                 \E j \in 1..Len(out.elements[i].tasks) :
                     \/ ~out.elements[i].tasks[j].type.present
                     \/ out.elements[i].tasks[j].srcBrick = ABSENT
                        /\ out.elements[i].tasks[j].type.text = <<"Replace", " ", "brick">>

\* C16: when the envelope decoded with outcome code 0 and the tree lacks a
\* node or field the mapper expects, the call fails with GlusterXMLError and
\* with nothing else.
C16_MissingNodeIsDecodeError ==
    (Returned /\ stages # <<>> /\ stages[Len(stages)] = "map" /\ LacksExpectedNode) =>
        result.kind = "GlusterXMLError"

----------------------------------------------------------------------------
(* Brick details of volume info *)

\* the brick node has both a name and a host identifier
Detailed(brick) == brick.name # ABSENT /\ brick.hostUuid # ABSENT

\* the number of leading brick nodes that are all Detailed
DetailedPrefix(bricks) ==
    CHOOSE n \in 0..Len(bricks) :
        /\ \A i \in 1..n : Detailed(bricks[i])
        /\ n < Len(bricks) => ~Detailed(bricks[n + 1])

\* the response holds a volume whose brick nodes lack a name or host identifier
LegacyBricksAnswered ==
    /\ Returned /\ call.op = "volumeInfo" /\ call.reply.out.body = "tree"
    /\ stages[Len(stages)] = "map"
    /\ \A i \in 1..Len(call.reply.out.elements) :
          ~Lacks(call.reply.out.elements[i], {"name", "id", "brickCount", "transport"})
          /\ call.reply.out.elements[i].typeStr.present
          /\ \A j \in 1..Len(call.reply.out.elements[i].options) :
                ~Lacks(call.reply.out.elements[i].options[j], {"name", "value"})

\* C17: bricksInfo is the longest prefix of the volume's brick nodes in which
\* every node has a name and a host identifier: collection stops at the first
\* brick lacking either, the bricks before it are kept, none after it is
\* added, and the call does not fail.
C17_BricksInfoLongestPrefix ==
    LegacyBricksAnswered =>
        /\ result.kind = "return"
        /\ \A name \in DOMAIN result.value :
              LET el == LastNamed(call.reply.out.elements, name)
                  info == result.value[name].bricksInfo
                  n == DetailedPrefix(el.bricks)
              IN  /\ Len(info) = n
                  /\ \A i \in 1..n :
                        info[i] = [name |-> el.bricks[i].name,
                                   hostUuid |-> el.bricks[i].hostUuid]

\* C17 witness: a volume whose first brick has no name and whose second brick
\* has both fields came back with both bricks and no brick detail
C17_Witness ==
    /\ LegacyBricksAnswered /\ result.kind = "return"
    /\ \E name \in DOMAIN result.value :
          LET el == LastNamed(call.reply.out.elements, name)
          IN  /\ Len(el.bricks) = 2
              /\ ~Detailed(el.bricks[1]) /\ Detailed(el.bricks[2])
              /\ result.value[name].bricksInfo = <<>>
              /\ Len(result.value[name].bricks) = 2

----------------------------------------------------------------------------
(* Status tokens *)

\* a rebalance or remove-brick call has returned the status of a response tree
RebalanceStatusReturned ==
    Returned /\ call.op \in RebalanceOperations /\ result.kind = "return"
        /\ call.reply.out.body = "tree"

\* volume tasks has returned the tasks of a response tree
VolumeTasksReturned ==
    Returned /\ call.op = "volumeTasks" /\ result.kind = "return"
        /\ call.reply.out.body = "tree"

\* upper-case, with no space and no hyphen left
Normalized(token) ==
    /\ upper(token) = token
    /\ \A i \in 1..Len(token) : token[i] \notin {" ", "-"}

\* C18: normalizing a status token again gives the same token, at each place
\* the normalization is applied: the aggregate summary and every per-host
\* entry of rebalance/remove-brick status, every task type and task status.
C18_NormalizationIdempotent ==
    /\ RebalanceStatusReturned =>
          /\ Normalized(result.value.summary.status)
          /\ normalizeStatus(result.value.summary.status) = result.value.summary.status
          /\ \A i \in 1..Len(result.value.hosts) :
                /\ Normalized(result.value.hosts[i].status)
                /\ normalizeStatus(result.value.hosts[i].status)
                      = result.value.hosts[i].status
    /\ VolumeTasksReturned =>
          \A id \in DOMAIN result.value :
              /\ Normalized(result.value[id].taskType)
              /\ Normalized(result.value[id].status)
              /\ normalizeTask(result.value[id].taskType) = result.value[id].taskType
              /\ normalizeTask(result.value[id].status) = result.value[id].status

\* C18 witness: a rebalance status came back whose summary was "in progress"
\* and whose second host was "not-started" in the response
C18_Witness ==
    /\ RebalanceStatusReturned
    /\ call.reply.out.elements[1].aggregate.statusStr.text = <<"in", " ", "progress">>
    /\ result.value.summary.status = <<"IN", "_", "PROGRESS">>
    /\ Len(result.value.hosts) = 2
    /\ call.reply.out.elements[1].nodes[2].statusStr.text = <<"not", "-", "started">>
    /\ result.value.hosts[2].status = <<"NOT", "_", "STARTED">>

====
